---------------------------- MODULE Spec2Model ----------------------------
(***************************************************************************)
(* Topic synchronization and access verification engine of the             *)
(* Discord -> Telegram announcement forwarder.                             *)
(*                                                                         *)
(*   TelegramBotService   services/telegram_bot.py   (Topic Store, Guard,  *)
(*                                                    reconcile passes)    *)
(*   DiscordTelegramParser, NewServerHandler   app.py                      *)
(*   DiscordWebSocketService   services/discord_websocket.py               *)
(*                                                                         *)
(* Execution contexts (bot worker threads, the websocket executor, the     *)
(* fallback and new-server threads) are the processes of `proc`; a step    *)
(* of a process runs from one access of shared state or network call to    *)
(* the next.                                                               *)
(***************************************************************************)
EXTENDS Integers, Sequences, FiniteSets, TLC

(***************************************************************************)
(* Bounds of the model.                                                    *)
(***************************************************************************)
NumProcs == 2
MaxThreads == 3
MaxOps == 3
MaxEnv == 1
MaxCalls == 4
MaxPassOps == 4
MaxPassEnv == 2
MaxDelOps == 2
MaxDelEnv == 2
MaxCreates == 5

Procs == 1..NumProcs
ThreadIds == 1..MaxThreads

(***************************************************************************)
(* Names.  A server name is a string, modelled as a sequence of            *)
(* characters; "c" is the castle emoji and "_" a space.                    *)
(***************************************************************************)
NoSrc == << >>
SrcA == <<"a">>
SrcB == <<"b">>
SrcCA == <<"c", "_", "a">>
SrcA_ == <<"a", "_">>
Prefix == <<"c", "_">>

AllSources == {SrcA, SrcB, SrcCA, SrcA_}
GuardSources == {SrcA, SrcB}

\* f"🏰 {server_name}"
TopicName(server_name) == Prefix \o server_name

NoTid == 0

\* _send_message: max_retries = 3
max_retries == 3

(***************************************************************************)
(* Python dict with insertion order: a sequence of [k, v] entries with     *)
(* distinct keys.                                                          *)
(***************************************************************************)
Has(d, k) == \E i \in 1..Len(d) : d[i].k = k
Get(d, k) == d[CHOOSE i \in 1..Len(d) : d[i].k = k].v
Put(d, k, v) ==
    IF Has(d, k)
    THEN [i \in 1..Len(d) |-> IF d[i].k = k THEN [k |-> k, v |-> v] ELSE d[i]]
    ELSE Append(d, [k |-> k, v |-> v])
DelKey(d, k) == SelectSeq(d, LAMBDA e : e.k # k)
Keys(d) == {d[i].k : i \in 1..Len(d)}

VARIABLES
    server_topics,              \* TelegramBotService.server_topics
    topic_name_cache,           \* TelegramBotService.topic_name_cache
    saved_topics,               \* 'topics' of the message_store file
    startup_verification_done,  \* TelegramBotService.startup_verification_done
    topic_creation_lock,        \* holder of topic_creation_lock, 0 when free
    topic_sync_lock,            \* holder of topic_sync_lock, 0 when free
    threads,                    \* the destination chat's forum topics, by id
    is_forum,                   \* what get_chat reports: supergroup with topics
    create_ok,                  \* whether create_forum_topic currently succeeds
    registry,                   \* keys of config.SERVER_CHANNEL_MAPPINGS
    proc,                       \* the execution contexts
    log,                        \* history of the run (calls issued, results)
    now,                        \* datetime.now(), in seconds
    pending_servers,            \* NewServerHandler.pending_servers
    handler,                    \* the thread running NewServerHandler.run
    ws_pending,                 \* DiscordWebSocketService.pending_servers and its task
    channel_access,             \* since when Discord answers 200 for a channel / guild
    admitted,                   \* history: when an entry was handed to processing
    save_ok,                    \* whether writing the message_store file succeeds
    access,                     \* the websocket service's channel sets and what Discord answers
    feed,                       \* the messages of the source channels, as Discord lists them
    gateway,                    \* MESSAGE_CREATE events not yet handled
    fallback,                   \* the thread running fallback_polling_loop
    forwarded                   \* history: the messages sent to the destination chat

vars == <<server_topics, topic_name_cache, saved_topics, startup_verification_done,
          topic_creation_lock, topic_sync_lock, threads, is_forum, create_ok,
          registry, proc, log, now, pending_servers, handler, ws_pending,
          channel_access, admitted, save_ok, access, feed, gateway, fallback,
          forwarded>>

topicVars == <<server_topics, topic_name_cache, saved_topics, startup_verification_done,
               topic_creation_lock, topic_sync_lock, threads, is_forum, create_ok,
               registry, proc, log>>
pendVars == <<now, pending_servers, handler, ws_pending, channel_access, admitted>>
fwdVars == <<save_ok, access, feed, gateway, fallback, forwarded>>

storeVars == <<server_topics, topic_name_cache, saved_topics>>
lockVars == <<topic_creation_lock, topic_sync_lock>>
envVars == <<is_forum, create_ok, registry>>

IdleProc ==
    [pc |-> "idle", op |-> "none", srv |-> NoSrc, tid |-> NoTid, ret |-> NoTid,
     stack |-> << >>, att |-> 0, snap |-> << >>, live |-> << >>,
     invalid |-> << >>, valid |-> << >>, closed |-> 0, old_count |-> 0,
     cur |-> {}, tops |-> {}, msgs |-> << >>, btid |-> NoTid, rec |-> 0,
     token_index |-> 0, count |-> 0, last_id |-> 0, limit |-> 0]

EmptyCache == [t \in ThreadIds |-> NoSrc]

NoPass == [kind |-> "none", removed |-> 0, closed |-> 0, changed |-> FALSE,
           exact |-> TRUE, collapsed |-> TRUE, dup |-> FALSE, skipped |-> FALSE]

InitLog ==
    [nops |-> 0,
     nenv |-> 0,
     creates |-> [s \in AllSources |-> 0],
     calls |-> [s \in AllSources |-> 0],
     returned |-> [s \in AllSources |-> {}],
     plain |-> TRUE,
     seq |-> 0,
     prev |-> 0,
     pass |-> NoPass,
     verified |-> FALSE]

(***************************************************************************)
(* The destination.                                                        *)
(***************************************************************************)
\* get_forum_topic answers and the topic is not closed
ThreadOpenIn(ths, topic_id) ==
    /\ topic_id \in 1..Len(ths)
    /\ ths[topic_id].st = "open"

ThreadOpen(topic_id) == ThreadOpenIn(threads, topic_id)

\* an existence check that always answers yes
TopicAlwaysExists(ths, topic_id) == TRUE

\* TelegramBotService._topic_exists (telegram_bot.py 156-174).  probe is what
\* get_forum_topic does for the thread: it answers, it raises an ApiException
\* whose text is not "not found" ("api_error", line 172: True), or it raises
\* anything else ("fails", lines 173-174: False)
TopicExistsIn(ths, topic_id) ==
    /\ topic_id # NoTid
    /\ topic_id \in 1..Len(ths)
    /\ IF ths[topic_id].probe = "answers" THEN ThreadOpenIn(ths, topic_id)
       ELSE ths[topic_id].probe = "api_error"

TopicExists(topic_id) == TopicExistsIn(threads, topic_id)

\* TelegramBotService._check_if_supergroup_with_topics
\* a chat check that answers yes whatever the chat is
TopicsAlwaysSupported == TRUE

CheckIfSupergroupWithTopics == is_forum

\* bot.close_forum_topic, errors ignored by every caller
CloseForumTopic(ths, topic_id) ==
    IF topic_id \in 1..Len(ths) /\ ths[topic_id].st = "open"
    THEN [ths EXCEPT ![topic_id].st = "closed"]
    ELSE ths

\* TelegramBotService._save_data with the topics d: the file is rewritten, or
\* the error is logged and the file stays as it was
SaveData(d) == IF save_ok THEN d ELSE saved_topics

(***************************************************************************)
(* Call and return inside one execution context.  A step of a context runs *)
(* up to its next network call or lock acquisition, so the code that       *)
(* follows a return up to that point belongs to the returning step.        *)
(***************************************************************************)
Call(pr, entry, cont) == [pr EXCEPT !.pc = entry, !.stack = <<cont>> \o pr.stack]

\* return of _get_or_create_topic_safe, startup_topic_verification,
\* cleanup_invalid_topics, verify_existing_topics or _send_message to:
\*   op_done       the operation is over
\*   d_send        send_messages lines 327-340: send with the id obtained
\*   f_send        forward_to_telegram lines 676-694: no id, no send
\*   sm_recreated  _send_message lines 388-395: next attempt with the new id,
\*                 un-threaded when there is none
\* What follows a finished _send_message.  send_messages lines 333-349 goes
\* on with the next message of the batch under the topic id it obtained
\* before the loop and saves after the last one; forward_to_telegram lines
\* 695-697 saves after a message that was sent.
AfterMessage(pr, sent) ==
    IF pr.op = "deliver"
    THEN IF Len(pr.msgs) > 1
         THEN [pr EXCEPT !.pc = "sm_try", !.msgs = Tail(@), !.tid = pr.btid,
                         !.att = 0, !.rec = 0]
         ELSE [pr EXCEPT !.pc = "d_save"]
    ELSE IF sent THEN [pr EXCEPT !.pc = "d_save"] ELSE IdleProc

Ret(pr, val) ==
    LET cont == Head(pr.stack)
        q == [pr EXCEPT !.stack = Tail(pr.stack), !.ret = val]
    IN CASE cont = "op_done" -> IdleProc
         [] cont = "d_send" ->
                [q EXCEPT !.pc = "sm_try", !.tid = val, !.btid = val, !.att = 0]
         [] cont = "f_send" ->
                IF val = NoTid THEN IdleProc
                ELSE [q EXCEPT !.pc = "sm_try", !.tid = val, !.att = 0]
         [] cont = "sm_recreated" ->
                IF pr.att + 1 >= max_retries THEN AfterMessage(q, FALSE)
                ELSE [q EXCEPT !.pc = "sm_try", !.tid = val, !.att = @ + 1]
         [] OTHER -> [q EXCEPT !.pc = cont]

\* an exception nobody on the call path handles ends the operation
Raise(pr) == IdleProc

(***************************************************************************)
(* TelegramBotService._get_or_create_topic_safe                            *)
(***************************************************************************)
\* lines 198-206 up to the existence check of the cached id
FastRead(pr) ==
    IF Has(server_topics, pr.srv)
    THEN [pr EXCEPT !.pc = "g_fast_probe", !.tid = Get(server_topics, pr.srv)]
    ELSE [pr EXCEPT !.pc = "g_lock"]

\* an entry that goes to the cache at once
GuardEntryUnverified(pr) == FastRead(pr)

\* lines 191-199: startup verification first, then the cache without the lock
GuardEntry(pr) ==
    IF startup_verification_done THEN FastRead(pr)
    ELSE Call(pr, "sv_lock", "g_fast")

\* the same entry when server_name is known to be absent from the cache
GuardEntryAbsent(pr) ==
    IF startup_verification_done THEN [pr EXCEPT !.pc = "g_lock"]
    ELSE Call(pr, "sv_lock", "g_fast")

\* the value handed back to the caller of _get_or_create_topic_safe
GuardReturn(p, val) ==
    /\ proc' = [proc EXCEPT ![p] = Ret(@, val)]
    /\ log' = [log EXCEPT !.returned[proc[p].srv] = @ \cup {val}]

\* a search that never finds an entry
NoSameNameEntries(server_name) == {}

\* lines 232-236: entries filed under another key whose live thread carries the
\* topic name of server_name
SameNameEntries(server_name) ==
    {i \in 1..Len(server_topics) :
        /\ server_topics[i].k # server_name
        /\ TopicExists(server_topics[i].v)
        /\ threads[server_topics[i].v].name = TopicName(server_name)}

\* lines 198-199 after the startup verification has returned
GuardFast(p) ==
    /\ proc[p].pc = "g_fast"
    /\ proc' = [proc EXCEPT ![p] = FastRead(@)]
    /\ UNCHANGED <<storeVars, startup_verification_done, lockVars, threads, envVars, log>>
    /\ UNCHANGED pendVars
    /\ UNCHANGED fwdVars

\* the same check made only while nobody holds topic_creation_lock
GuardFastProbeLocked(p) ==
    /\ proc[p].pc = "g_fast_probe"
    /\ topic_creation_lock = 0
    /\ IF TopicExists(proc[p].tid)
       THEN GuardReturn(p, proc[p].tid)
       ELSE /\ proc' = [proc EXCEPT ![p].pc = "g_lock"]
            /\ UNCHANGED log
    /\ UNCHANGED <<storeVars, startup_verification_done, lockVars, threads, envVars>>
    /\ UNCHANGED pendVars
    /\ UNCHANGED fwdVars

\* lines 202-206: existence check of the cached id
GuardFastProbe(p) ==
    /\ proc[p].pc = "g_fast_probe"
    /\ IF TopicExists(proc[p].tid)
       THEN GuardReturn(p, proc[p].tid)
       ELSE /\ proc' = [proc EXCEPT ![p].pc = "g_lock"]
            /\ UNCHANGED log
    /\ UNCHANGED <<storeVars, startup_verification_done, lockVars, threads, envVars>>
    /\ UNCHANGED pendVars
    /\ UNCHANGED fwdVars

\* the same step without the double check of lines 211-223
GuardLockNoDoubleCheck(p) ==
    /\ proc[p].pc = "g_lock"
    /\ topic_creation_lock = 0
    /\ topic_creation_lock' = p
    /\ proc' = [proc EXCEPT ![p].pc = "g_chat"]
    /\ UNCHANGED <<storeVars, startup_verification_done, topic_sync_lock, threads, envVars, log>>
    /\ UNCHANGED pendVars
    /\ UNCHANGED fwdVars

\* lines 209-212: the lock, then the double check
GuardLock(p) ==
    /\ proc[p].pc = "g_lock"
    /\ topic_creation_lock = 0
    /\ topic_creation_lock' = p
    /\ proc' = [proc EXCEPT ![p] =
            IF Has(server_topics, proc[p].srv)
            THEN [@ EXCEPT !.pc = "g_check_probe", !.tid = Get(server_topics, proc[p].srv)]
            ELSE [@ EXCEPT !.pc = "g_chat"]]
    /\ UNCHANGED <<storeVars, startup_verification_done, topic_sync_lock, threads, envVars, log>>
    /\ UNCHANGED pendVars
    /\ UNCHANGED fwdVars

\* the double check with an early return that leaves the lock taken, as an
\* acquire() without a matching release() would
GuardCheckProbeKeepsLock(p) ==
    /\ proc[p].pc = "g_check_probe"
    /\ IF TopicExists(proc[p].tid)
       THEN /\ GuardReturn(p, proc[p].tid)
            /\ UNCHANGED <<storeVars, topic_creation_lock>>
       ELSE IF Has(server_topics, proc[p].srv)
       THEN /\ server_topics' = DelKey(server_topics, proc[p].srv)
            /\ topic_name_cache' = [topic_name_cache EXCEPT ![proc[p].tid] = NoSrc]
            /\ saved_topics' = SaveData(server_topics')
            /\ proc' = [proc EXCEPT ![p].pc = "g_chat"]
            /\ UNCHANGED <<topic_creation_lock, log>>
       ELSE /\ proc' = [proc EXCEPT ![p] = Raise(@)]
            /\ topic_creation_lock' = 0
            /\ UNCHANGED <<storeVars, log>>
    /\ UNCHANGED <<startup_verification_done, topic_sync_lock, threads, envVars>>
    /\ UNCHANGED pendVars
    /\ UNCHANGED fwdVars

\* lines 215-223: a confirmed id is returned, a missing one is dropped from the
\* cache (del raises KeyError when the key went away in the meantime)
GuardCheckProbe(p) ==
    /\ proc[p].pc = "g_check_probe"
    /\ IF TopicExists(proc[p].tid)
       THEN /\ GuardReturn(p, proc[p].tid)
            /\ topic_creation_lock' = 0
            /\ UNCHANGED storeVars
       ELSE IF Has(server_topics, proc[p].srv)
       THEN /\ server_topics' = DelKey(server_topics, proc[p].srv)
            /\ topic_name_cache' = [topic_name_cache EXCEPT ![proc[p].tid] = NoSrc]
            /\ saved_topics' = SaveData(server_topics')
            /\ proc' = [proc EXCEPT ![p].pc = "g_chat"]
            /\ UNCHANGED <<topic_creation_lock, log>>
       ELSE /\ proc' = [proc EXCEPT ![p] = Raise(@)]
            /\ topic_creation_lock' = 0
            /\ UNCHANGED <<storeVars, log>>
    /\ UNCHANGED <<startup_verification_done, topic_sync_lock, threads, envVars>>
    /\ UNCHANGED pendVars
    /\ UNCHANGED fwdVars

\* lines 226-244: a chat without topics yields None; a live thread of the same
\* name under another key is adopted
GuardChat(p) ==
    /\ proc[p].pc = "g_chat"
    /\ IF ~CheckIfSupergroupWithTopics
       THEN /\ GuardReturn(p, NoTid)
            /\ topic_creation_lock' = 0
            /\ UNCHANGED storeVars
       ELSE LET hits == SameNameEntries(proc[p].srv) IN
            IF hits # {}
            THEN LET i == CHOOSE j \in hits : \A h \in hits : j <= h
                     existing_topic_id == server_topics[i].v
                 IN /\ server_topics' = Put(server_topics, proc[p].srv, existing_topic_id)
                    /\ topic_name_cache' =
                          [topic_name_cache EXCEPT ![existing_topic_id] = proc[p].srv]
                    /\ saved_topics' = SaveData(server_topics')
                    /\ GuardReturn(p, existing_topic_id)
                    /\ topic_creation_lock' = 0
            ELSE /\ proc' = [proc EXCEPT ![p].pc = "g_create"]
                 /\ UNCHANGED <<storeVars, topic_creation_lock, log>>
    /\ UNCHANGED <<startup_verification_done, topic_sync_lock, threads, envVars>>
    /\ UNCHANGED pendVars
    /\ UNCHANGED fwdVars

\* the same step with the mapping written and saved before the call is made
GuardCreateEager(p) ==
    /\ proc[p].pc = "g_create"
    /\ Len(threads) < MaxThreads
    /\ LET topic_id == Len(threads) + 1 IN
       /\ server_topics' = Put(server_topics, proc[p].srv, topic_id)
       /\ topic_name_cache' = [topic_name_cache EXCEPT ![topic_id] = proc[p].srv]
       /\ saved_topics' = SaveData(server_topics')
       /\ threads' = IF create_ok
                     THEN Append(threads, [name |-> TopicName(proc[p].srv),
                                           st |-> "open", src |-> proc[p].srv,
                                           probe |-> "answers"])
                     ELSE threads
       /\ proc' = [proc EXCEPT ![p] = Ret(@, IF create_ok THEN topic_id ELSE NoTid)]
       /\ log' = [log EXCEPT
                    !.returned[proc[p].srv] =
                        @ \cup {IF create_ok THEN topic_id ELSE NoTid},
                    !.creates[proc[p].srv] = IF @ < MaxCreates THEN @ + 1 ELSE @]
    /\ topic_creation_lock' = 0
    /\ UNCHANGED <<startup_verification_done, topic_sync_lock, envVars>>
    /\ UNCHANGED pendVars
    /\ UNCHANGED fwdVars

\* lines 249-267: create_forum_topic, then the mapping is written and saved;
\* a failed call yields None
GuardCreate(p) ==
    /\ proc[p].pc = "g_create"
    /\ Len(threads) < MaxThreads
    /\ IF create_ok
       THEN LET topic_id == Len(threads) + 1 IN
            /\ threads' = Append(threads,
                    [name |-> TopicName(proc[p].srv), st |-> "open", src |-> proc[p].srv,
                     probe |-> "answers"])
            /\ server_topics' = Put(server_topics, proc[p].srv, topic_id)
            /\ topic_name_cache' = [topic_name_cache EXCEPT ![topic_id] = proc[p].srv]
            /\ saved_topics' = SaveData(server_topics')
            /\ proc' = [proc EXCEPT ![p] = Ret(@, topic_id)]
            /\ log' = [log EXCEPT !.returned[proc[p].srv] = @ \cup {topic_id},
                                  !.creates[proc[p].srv] = IF @ < MaxCreates THEN @ + 1 ELSE @]
       ELSE /\ proc' = [proc EXCEPT ![p] = Ret(@, NoTid)]
            /\ log' = [log EXCEPT !.returned[proc[p].srv] = @ \cup {NoTid},
                                  !.creates[proc[p].srv] = IF @ < MaxCreates THEN @ + 1 ELSE @]
            /\ UNCHANGED <<storeVars, threads>>
    /\ topic_creation_lock' = 0
    /\ UNCHANGED <<startup_verification_done, topic_sync_lock, envVars>>
    /\ UNCHANGED pendVars
    /\ UNCHANGED fwdVars

(***************************************************************************)
(* Helpers of the reconciliation passes.                                   *)
(***************************************************************************)
\* "for srv, tid in list(server_topics.items()): if tid == old: del; break"
DelFirstValue(d, v) ==
    IF \E i \in 1..Len(d) : d[i].v = v
    THEN LET i == CHOOSE j \in 1..Len(d) :
                    d[j].v = v /\ \A h \in 1..Len(d) : d[h].v = v => j <= h
         IN DelKey(d, d[i].k)
    ELSE d

\* the key the same loop stops at, NoSrc when no entry holds the value
FirstKeyOfValue(d, v) ==
    IF \E i \in 1..Len(d) : d[i].v = v
    THEN LET i == CHOOSE j \in 1..Len(d) :
                    d[j].v = v /\ \A h \in 1..Len(d) : d[h].v = v => j <= h
         IN d[i].k
    ELSE NoSrc

\* the removal loop that removes nothing
KeepAll(d, ks) == d

\* "for server_name in invalid_topics: if server_name in d: del d[server_name]"
RECURSIVE DelAll(_, _)
DelAll(d, ks) ==
    IF ks = << >> THEN d ELSE DelAll(DelKey(d, Head(ks)), Tail(ks))

\* {v: k for k, v in server_topics.items()}: a later key wins
InverseOf(d) ==
    [t \in ThreadIds |->
        IF \E i \in 1..Len(d) : d[i].v = t
        THEN LET i == CHOOSE j \in 1..Len(d) :
                        d[j].v = t /\ \A h \in 1..Len(d) : d[h].v = t => h <= j
             IN d[i].k
        ELSE NoSrc]

\* cleanup_invalid_topics lines 452-458, the cache side
RECURSIVE UncacheAll(_, _, _)
UncacheAll(cache, d, ks) ==
    IF ks = << >> THEN cache
    ELSE IF Has(d, Head(ks))
         THEN UncacheAll([cache EXCEPT ![Get(d, Head(ks))] = NoSrc],
                         DelKey(d, Head(ks)), Tail(ks))
         ELSE UncacheAll(cache, d, Tail(ks))

\* the entries of a snapshot whose thread the destination holds and has open
LiveEntries(d, ths) ==
    LET Live(e) == ThreadOpenIn(ths, e.v) IN SelectSeq(d, Live)

ScanStart(d, ths) ==
    [valid |-> << >>, invalid |-> << >>, d |-> d, ths |-> ths, closed |-> 0]

(***************************************************************************)
(* str.replace("\U0001F3F0 ", "").strip() of verify_existing_topics.  The  *)
(* emoji is the letter "c", the blank is "_".                              *)
(***************************************************************************)
RECURSIVE RemovePrefix(_)
RemovePrefix(s) ==
    IF Len(s) < 2 THEN s
    ELSE IF s[1] = Prefix[1] /\ s[2] = Prefix[2]
         THEN RemovePrefix(SubSeq(s, 3, Len(s)))
         ELSE <<s[1]>> \o RemovePrefix(Tail(s))

RECURSIVE Strip(_)
Strip(s) ==
    IF s = << >> THEN s
    ELSE IF Head(s) = "_" THEN Strip(Tail(s))
    ELSE IF s[Len(s)] = "_" THEN Strip(SubSeq(s, 1, Len(s) - 1))
    ELSE s

CleanName(topic_name) == Strip(RemovePrefix(topic_name))

\* the name a pass compares to find two entries of one source
CanonicalName(kind, server_name) ==
    IF kind = "ve" THEN CleanName(server_name) ELSE TopicName(server_name)

(***************************************************************************)
(* What a completed pass did, for the record of the run.                   *)
(***************************************************************************)
\* pairs of live entries of the snapshot with one canonical name
DupPairs(kind, live) ==
    {pr \in (1..Len(live)) \X (1..Len(live)) :
        /\ pr[1] < pr[2]
        /\ live[pr[1]].v # live[pr[2]].v
        /\ CanonicalName(kind, live[pr[1]].k) = CanonicalName(kind, live[pr[2]].k)}

\* one key of the pair is left, one thread of the pair is open, and the key
\* that is left points to an open thread
Collapsed(live, pr, d, ths) ==
    LET k1 == live[pr[1]].k
        k2 == live[pr[2]].k
    IN /\ Has(d, k1) # Has(d, k2)
       /\ ThreadOpenIn(ths, live[pr[1]].v) # ThreadOpenIn(ths, live[pr[2]].v)
       /\ ThreadOpenIn(ths, Get(d, IF Has(d, k1) THEN k1 ELSE k2))

PassRecord(kind, pr, removed, d, ths, skipped) ==
    [kind |-> kind,
     skipped |-> skipped,
     removed |-> removed,
     closed |-> pr.closed,
     changed |-> d # pr.snap,
     exact |-> d = pr.live,
     dup |-> DupPairs(kind, pr.live) # {},
     collapsed |-> \A pp \in DupPairs(kind, pr.live) : Collapsed(pr.live, pp, d, ths)]

\* runs of one pass back to back by cleanup_topics / verify_topics are
\* counted, with what the run before reported
PassLog(p, rec) ==
    log' = [log EXCEPT !.pass = rec,
                       !.verified = @ \/ rec.kind = "sv",
                       !.prev = log.pass.removed,
                       !.seq = IF proc[p].op \in {"cleanup", "verify"}
                               THEN (IF @ >= 1 /\ log.pass.kind = rec.kind THEN 2 ELSE 1)
                               ELSE 0]

(***************************************************************************)
(* TelegramBotService.startup_topic_verification                           *)
(***************************************************************************)
\* lines 91-120, the loop over list(server_topics.items())
RECURSIVE SvScanAll(_, _, _)
SvScanAll(snap, i, acc) ==
    IF i > Len(snap) THEN acc
    ELSE LET server_name == snap[i].k
             topic_id == snap[i].v
             topic_name == TopicName(server_name)
         IN IF TopicExistsIn(acc.ths, topic_id)
            THEN LET acc1 ==
                        IF Has(acc.valid, topic_name)
                        THEN LET old_topic_id == Get(acc.valid, topic_name)
                             IN [acc EXCEPT !.ths = CloseForumTopic(@, old_topic_id),
                                            !.d = DelFirstValue(@, old_topic_id),
                                            !.closed = @ + 1]
                        ELSE acc
                 IN SvScanAll(snap, i + 1,
                              [acc1 EXCEPT !.valid = Put(@, topic_name, topic_id)])
            ELSE SvScanAll(snap, i + 1,
                           [acc EXCEPT !.invalid = Append(@, server_name)])

\* lines 73-120: the lock, the double check, the chat check, the scan
SvLock(p) ==
    /\ proc[p].pc = "sv_lock"
    /\ topic_sync_lock = 0
    /\ IF startup_verification_done
       THEN /\ proc' = [proc EXCEPT ![p] = Ret(@, NoTid)]
            /\ UNCHANGED <<storeVars, startup_verification_done, lockVars, threads, log>>
       ELSE IF ~CheckIfSupergroupWithTopics
       THEN /\ startup_verification_done' = TRUE
            /\ proc' = [proc EXCEPT ![p] = Ret(@, NoTid)]
            /\ PassLog(p, PassRecord("sv",
                    [proc[p] EXCEPT !.snap = server_topics,
                                    !.live = LiveEntries(server_topics, threads)],
                    0, server_topics, threads, TRUE))
            /\ UNCHANGED <<storeVars, lockVars, threads>>
       ELSE LET r == SvScanAll(server_topics, 1, ScanStart(server_topics, threads)) IN
            /\ topic_sync_lock' = p
            /\ server_topics' = r.d
            /\ threads' = r.ths
            /\ proc' = [proc EXCEPT ![p] =
                    [@ EXCEPT !.pc = "sv_apply", !.snap = server_topics,
                              !.live = LiveEntries(server_topics, threads),
                              !.invalid = r.invalid, !.valid = r.valid,
                              !.closed = r.closed]]
            /\ UNCHANGED <<topic_name_cache, saved_topics, startup_verification_done,
                           topic_creation_lock, log>>
    /\ UNCHANGED envVars
    /\ UNCHANGED pendVars
    /\ UNCHANGED fwdVars

\* lines 123-141: removal, inverse cache, save when something changed
SvApply(p) ==
    /\ proc[p].pc = "sv_apply"
    /\ LET d == DelAll(server_topics, proc[p].invalid)
           removed == IF proc[p].op = "verify"
                      THEN proc[p].old_count - Len(d)
                      ELSE Len(proc[p].invalid)
       IN /\ server_topics' = d
          /\ topic_name_cache' = InverseOf(d)
          /\ saved_topics' =
                IF proc[p].invalid # << >> \/ Len(proc[p].valid) # Len(d)
                THEN SaveData(d) ELSE saved_topics
          /\ PassLog(p, PassRecord("sv", proc[p], removed, d, threads, FALSE))
    /\ startup_verification_done' = TRUE
    /\ topic_sync_lock' = 0
    /\ proc' = [proc EXCEPT ![p] = Ret(@, NoTid)]
    /\ UNCHANGED <<topic_creation_lock, threads, envVars>>
    /\ UNCHANGED pendVars
    /\ UNCHANGED fwdVars

(***************************************************************************)
(* TelegramBotService.cleanup_invalid_topics                               *)
(***************************************************************************)
\* lines 429-449
RECURSIVE ClScanAll(_, _, _)
ClScanAll(snap, i, acc) ==
    IF i > Len(snap) THEN acc
    ELSE LET server_name == snap[i].k
             topic_id == snap[i].v
             topic_name == TopicName(server_name)
         IN IF ~TopicExistsIn(acc.ths, topic_id)
            THEN ClScanAll(snap, i + 1,
                           [acc EXCEPT !.invalid = Append(@, server_name)])
            ELSE LET acc1 ==
                        IF Has(acc.valid, topic_name)
                        THEN LET old_topic_id == Get(acc.valid, topic_name)
                                 srv == FirstKeyOfValue(acc.d, old_topic_id)
                             IN [acc EXCEPT !.ths = CloseForumTopic(@, old_topic_id),
                                            !.invalid = IF srv = NoSrc THEN @
                                                        ELSE Append(@, srv),
                                            !.closed = @ + 1]
                        ELSE acc
                 IN ClScanAll(snap, i + 1,
                              [acc1 EXCEPT !.valid = Put(@, topic_name, topic_id)])

\* lines 425-449: the lock and the scan
ClLock(p) ==
    /\ proc[p].pc = "cl_lock"
    /\ topic_sync_lock = 0
    /\ LET r == ClScanAll(server_topics, 1, ScanStart(server_topics, threads)) IN
       /\ topic_sync_lock' = p
       /\ threads' = r.ths
       /\ proc' = [proc EXCEPT ![p] =
               [@ EXCEPT !.pc = "cl_apply", !.snap = server_topics,
                         !.live = LiveEntries(server_topics, threads),
                         !.invalid = r.invalid, !.valid = r.valid,
                         !.closed = r.closed]]
    /\ UNCHANGED <<storeVars, startup_verification_done, topic_creation_lock, envVars, log>>
    /\ UNCHANGED pendVars
    /\ UNCHANGED fwdVars

\* lines 452-464
ClApply(p) ==
    /\ proc[p].pc = "cl_apply"
    /\ LET d == DelAll(server_topics, proc[p].invalid) IN
       /\ server_topics' = d
       /\ topic_name_cache' = UncacheAll(topic_name_cache, server_topics, proc[p].invalid)
       /\ saved_topics' = IF proc[p].invalid # << >> THEN SaveData(d) ELSE saved_topics
       /\ PassLog(p, PassRecord("cl", proc[p], Len(proc[p].invalid), d, threads, FALSE))
    /\ topic_sync_lock' = 0
    /\ proc' = [proc EXCEPT ![p] = Ret(@, Len(proc[p].invalid))]
    /\ UNCHANGED <<startup_verification_done, topic_creation_lock, threads, envVars>>
    /\ UNCHANGED pendVars
    /\ UNCHANGED fwdVars

(***************************************************************************)
(* DiscordWebSocketService.verify_existing_topics                          *)
(***************************************************************************)
\* get_all_forum_topics lines 155-161: topics[topic_id] = server_name
RECURSIVE GetAllForumTopics(_, _, _, _)
GetAllForumTopics(snap, i, ths, topics) ==
    IF i > Len(snap) THEN topics
    ELSE GetAllForumTopics(snap, i + 1, ths,
            IF TopicExistsIn(ths, snap[i].v)
            THEN Put(topics, snap[i].v, snap[i].k) ELSE topics)

\* lines 99-113: grouping by clean name, the later topic is kept
RECURSIVE VeGroup(_, _, _)
VeGroup(existing_topics, i, acc) ==
    IF i > Len(existing_topics) THEN acc
    ELSE LET topic_id == existing_topics[i].k
             clean_name == CleanName(existing_topics[i].v)
             acc1 ==
                IF Has(acc.valid, clean_name)
                THEN LET old_topic_id == Get(acc.valid, clean_name)
                     IN [acc EXCEPT
                            !.ths = CloseForumTopic(@, old_topic_id),
                            !.closed = @ + 1,
                            !.d = IF Has(@, clean_name) /\ Get(@, clean_name) = old_topic_id
                                  THEN Put(@, clean_name, topic_id) ELSE @]
                ELSE acc
         IN VeGroup(existing_topics, i + 1,
                    [acc1 EXCEPT !.valid = Put(@, clean_name, topic_id)])

\* lines 116-125: every key that is not a clean name of a live topic goes
RECURSIVE VeSyncAll(_, _, _, _)
VeSyncAll(items, i, d, topic_names) ==
    IF i > Len(items) THEN d
    ELSE LET server_name == items[i].k
             cached_topic_id == items[i].v
         IN IF Has(topic_names, server_name)
            THEN VeSyncAll(items, i + 1,
                    IF cached_topic_id # Get(topic_names, server_name)
                    THEN Put(d, server_name, Get(topic_names, server_name)) ELSE d,
                    topic_names)
            ELSE VeSyncAll(items, i + 1, DelKey(d, server_name), topic_names)

\* line 95: get_all_forum_topics, empty when the chat has no topics
VeScan(p) ==
    /\ proc[p].pc = "ve_scan"
    /\ proc' = [proc EXCEPT ![p] =
            [@ EXCEPT !.pc = "ve_sync", !.snap = server_topics,
                      !.live = LiveEntries(server_topics, threads),
                      !.valid = IF is_forum
                                THEN GetAllForumTopics(server_topics, 1, threads, << >>)
                                ELSE << >>]]
    /\ UNCHANGED <<storeVars, startup_verification_done, lockVars, threads, envVars, log>>
    /\ UNCHANGED pendVars
    /\ UNCHANGED fwdVars

\* lines 96-128: grouping, sync with the cache, save
VeSync(p) ==
    /\ proc[p].pc = "ve_sync"
    /\ LET g == VeGroup(proc[p].valid, 1, ScanStart(server_topics, threads))
           d == VeSyncAll(g.d, 1, g.d, g.valid)
       IN /\ server_topics' = d
          /\ saved_topics' = SaveData(d)
          /\ threads' = g.ths
          /\ PassLog(p, PassRecord("ve", [proc[p] EXCEPT !.closed = g.closed],
                                   Len(proc[p].snap) - Len(d), d, g.ths, FALSE))
    /\ proc' = [proc EXCEPT ![p] = Ret(@, NoTid)]
    /\ UNCHANGED <<topic_name_cache, startup_verification_done, lockVars, envVars>>
    /\ UNCHANGED pendVars
    /\ UNCHANGED fwdVars

(***************************************************************************)
(* Delivery: send_messages, forward_to_telegram, _send_message,            *)
(* get_server_topic_id, _recreate_topic_if_missing                         *)
(***************************************************************************)
\* a list left in the order it came in
KeepOrder(msgs) == msgs

RECURSIVE Reverse(_)
Reverse(msgs) ==
    IF msgs = << >> THEN << >> ELSE Append(Reverse(Tail(msgs)), Head(msgs))

\* list.sort(key=lambda x: x.timestamp) and sorted(..., key=...): stable
RECURSIVE InsertByTimestamp(_, _)
InsertByTimestamp(sorted, m) ==
    IF sorted = << >> THEN <<m>>
    ELSE IF Head(sorted).ts <= m.ts
         THEN <<Head(sorted)>> \o InsertByTimestamp(Tail(sorted), m)
         ELSE <<m>> \o sorted

RECURSIVE SortByTimestamp(_)
SortByTimestamp(msgs) ==
    IF msgs = << >> THEN << >>
    ELSE InsertByTimestamp(SortByTimestamp(SubSeq(msgs, 1, Len(msgs) - 1)),
                           msgs[Len(msgs)])

\* send_messages lines 324-327 / get_server_topic_id lines 183-187: the cached
\* id is used as it is, the Guard is asked when there is none
DRead(pr) ==
    IF Has(server_topics, pr.srv)
    THEN [pr EXCEPT !.pc = "sm_try", !.tid = Get(server_topics, pr.srv),
                    !.btid = Get(server_topics, pr.srv), !.att = 0]
    ELSE GuardEntry([pr EXCEPT !.stack = <<"d_send">> \o pr.stack])

\* get_server_topic_id lines 179-180
DGet(pr) ==
    IF startup_verification_done THEN DRead(pr)
    ELSE Call(pr, "sv_lock", "d_read")

\* send_messages lines 307-308, and line 330: the messages of the server are
\* sorted before the first of them is sent
DEntry(pr) ==
    LET q == [pr EXCEPT !.msgs = SortByTimestamp(@)]
    IN IF startup_verification_done THEN DGet(q)
       ELSE Call(q, "sv_lock", "d_get")

\* forward_to_telegram lines 660-683, up to the chat check
FRead(pr) ==
    IF Has(server_topics, pr.srv)
    THEN [pr EXCEPT !.pc = "sm_try", !.tid = Get(server_topics, pr.srv), !.att = 0]
    ELSE [pr EXCEPT !.pc = "f_chat"]

FGet(pr) ==
    IF startup_verification_done THEN FRead(pr)
    ELSE Call(pr, "sv_lock", "f_read")

\* continuation of send_messages / forward_to_telegram after the startup
\* verification they called has returned
AfterVerification(p) ==
    /\ proc[p].pc \in {"d_get", "d_read", "f_read"}
    /\ proc' = [proc EXCEPT ![p] =
            CASE @.pc = "d_get" -> DGet(@)
              [] @.pc = "d_read" -> DRead(@)
              [] OTHER -> FRead(@)]
    /\ UNCHANGED <<storeVars, startup_verification_done, lockVars, threads, envVars, log>>
    /\ UNCHANGED pendVars
    /\ UNCHANGED fwdVars

\* forward_to_telegram lines 667-681: no topic is created in a chat without
\* topics, the message is dropped
FChat(p) ==
    /\ proc[p].pc = "f_chat"
    /\ proc' = [proc EXCEPT ![p] =
            IF CheckIfSupergroupWithTopics
            THEN GuardEntry([@ EXCEPT !.stack = <<"f_send">> \o proc[p].stack])
            ELSE IdleProc]
    /\ UNCHANGED <<storeVars, startup_verification_done, lockVars, threads, envVars, log>>
    /\ UNCHANGED pendVars
    /\ UNCHANGED fwdVars

\* _send_message lines 367-417, one attempt; "message thread not found" runs
\* _recreate_topic_if_missing lines 274-283, which drops whatever is mapped
\* now and asks the Guard
SmTry(p) ==
    /\ proc[p].pc = "sm_try"
    /\ LET message_thread_id == proc[p].tid
           server_name == proc[p].srv
       IN IF message_thread_id = NoTid \/ ThreadOpen(message_thread_id)
          THEN /\ proc' = [proc EXCEPT ![p] = AfterMessage(@, TRUE)]
               /\ forwarded' = IF proc[p].msgs # << >>
                                THEN Append(forwarded, Head(proc[p].msgs))
                                ELSE forwarded
               /\ UNCHANGED storeVars
          ELSE IF ~(message_thread_id \in 1..Len(threads))
                  \/ threads[message_thread_id].st = "deleted"
          THEN /\ IF Has(server_topics, server_name)
                  THEN /\ server_topics' = DelKey(server_topics, server_name)
                       /\ topic_name_cache' =
                            [topic_name_cache EXCEPT
                                ![Get(server_topics, server_name)] = NoSrc]
                       /\ saved_topics' = SaveData(server_topics')
                  ELSE UNCHANGED storeVars
               /\ proc' = [proc EXCEPT ![p] =
                        GuardEntryAbsent(
                            [@ EXCEPT !.stack = <<"sm_recreated">> \o proc[p].stack,
                                      !.rec = @ + 1])]
               /\ UNCHANGED forwarded
          ELSE /\ proc' = [proc EXCEPT ![p] =
                        IF @.att >= max_retries - 1 THEN AfterMessage(@, FALSE)
                        ELSE [@ EXCEPT !.att = @ + 1]]
               /\ UNCHANGED <<storeVars, forwarded>>
    /\ UNCHANGED <<startup_verification_done, lockVars, threads, envVars, log>>
    /\ UNCHANGED pendVars
    /\ UNCHANGED <<save_ok, access, feed, gateway, fallback>>

\* send_messages line 349 and forward_to_telegram line 696: _save_data
DSave(p) ==
    /\ proc[p].pc = "d_save"
    /\ saved_topics' = SaveData(server_topics)
    /\ proc' = [proc EXCEPT ![p] = Ret(@, NoTid)]
    /\ UNCHANGED <<server_topics, topic_name_cache, startup_verification_done,
                   lockVars, threads, envVars, log>>
    /\ UNCHANGED pendVars
    /\ UNCHANGED fwdVars

(***************************************************************************)
(* DiscordTelegramParser.sync_servers                                      *)
(***************************************************************************)
\* lines 143-152
RECURSIVE DropServers(_, _, _)
DropServers(d, cache, removed_servers) ==
    IF removed_servers = {} THEN [d |-> d, cache |-> cache]
    ELSE LET server == CHOOSE x \in removed_servers : TRUE IN
         IF Has(d, server)
         THEN DropServers(DelKey(d, server), [cache EXCEPT ![Get(d, server)] = NoSrc],
                          removed_servers \ {server})
         ELSE DropServers(d, cache, removed_servers \ {server})

\* a sync that opens a thread for a registry server without a mapping
SsCleanedCreating(p) ==
    /\ proc[p].pc = "ss_cleaned"
    /\ LET telegram_topics == IF proc[p].ret > 0 THEN Keys(server_topics) ELSE proc[p].tops
           removed_servers == telegram_topics \ proc[p].cur
           new_servers == proc[p].cur \ Keys(server_topics)
           r == DropServers(server_topics, topic_name_cache, removed_servers)
       IN IF new_servers # {} /\ Len(threads) < MaxThreads
          THEN LET server == CHOOSE x \in new_servers : TRUE
                   topic_id == Len(threads) + 1
               IN /\ threads' = Append(threads,
                          [name |-> TopicName(server), st |-> "open", src |-> server,
                     probe |-> "answers"])
                  /\ server_topics' = Put(r.d, server, topic_id)
                  /\ topic_name_cache' = [r.cache EXCEPT ![topic_id] = server]
                  /\ saved_topics' = SaveData(server_topics')
          ELSE /\ server_topics' = r.d
               /\ topic_name_cache' = r.cache
               /\ saved_topics' = IF removed_servers # {} THEN SaveData(r.d) ELSE saved_topics
               /\ UNCHANGED threads
    /\ proc' = [proc EXCEPT ![p] =
            IF @.op = "initial_sync" THEN [@ EXCEPT !.pc = "is_fetch"] ELSE IdleProc]
    /\ log' = [log EXCEPT !.seq = 0]
    /\ UNCHANGED <<startup_verification_done, lockVars, envVars>>
    /\ UNCHANGED pendVars
    /\ UNCHANGED fwdVars

\* lines 130-155, after cleanup_invalid_topics has returned
SsCleaned(p) ==
    /\ proc[p].pc = "ss_cleaned"
    /\ LET telegram_topics == IF proc[p].ret > 0 THEN Keys(server_topics) ELSE proc[p].tops
           removed_servers == telegram_topics \ proc[p].cur
           r == DropServers(server_topics, topic_name_cache, removed_servers)
       IN /\ server_topics' = r.d
          /\ topic_name_cache' = r.cache
          /\ saved_topics' = IF removed_servers # {} THEN SaveData(r.d) ELSE saved_topics
    /\ proc' = [proc EXCEPT ![p] =
            IF @.op = "initial_sync" THEN [@ EXCEPT !.pc = "is_fetch"] ELSE IdleProc]
    /\ log' = [log EXCEPT !.seq = 0]
    /\ UNCHANGED <<startup_verification_done, lockVars, threads, envVars>>
    /\ UNCHANGED pendVars
    /\ UNCHANGED fwdVars

(***************************************************************************)
(* The operations an execution context starts, and the bot commands.       *)
(***************************************************************************)
Begin(op, server_name) ==
    [IdleProc EXCEPT !.op = op, !.srv = server_name, !.stack = <<"op_done">>]

Started(plain) ==
    [log EXCEPT !.nops = @ + 1, !.seq = 0, !.plain = @ /\ plain]

\* a caller of _get_or_create_topic_safe (handle_new_guild, process_new_server,
\* get_or_create_server_topic)
StartAcquire(p, server_name) ==
    /\ proc[p].pc = "idle"
    /\ proc' = [proc EXCEPT ![p] = GuardEntry(Begin("acquire", server_name))]
    /\ log' = [Started(FALSE) EXCEPT !.calls[server_name] = @ + 1]
    /\ UNCHANGED <<storeVars, startup_verification_done, lockVars, threads, envVars>>
    /\ UNCHANGED pendVars
    /\ UNCHANGED fwdVars

\* send_messages with one message of server_name
StartDeliver(p, server_name) ==
    /\ proc[p].pc = "idle"
    /\ proc' = [proc EXCEPT ![p] = DEntry(Begin("deliver", server_name))]
    /\ log' = Started(TRUE)
    /\ UNCHANGED <<storeVars, startup_verification_done, lockVars, threads, envVars>>
    /\ UNCHANGED pendVars
    /\ UNCHANGED fwdVars

\* forward_to_telegram with a message of server_name
StartForward(p, server_name) ==
    /\ proc[p].pc = "idle"
    /\ proc' = [proc EXCEPT ![p] = FGet(Begin("forward", server_name))]
    /\ log' = Started(TRUE)
    /\ UNCHANGED <<storeVars, startup_verification_done, lockVars, threads, envVars>>
    /\ UNCHANGED pendVars
    /\ UNCHANGED fwdVars

\* cleanup_topics_command
StartCleanup(p) ==
    /\ proc[p].pc = "idle"
    /\ proc' = [proc EXCEPT ![p] = [Begin("cleanup", NoSrc) EXCEPT !.pc = "cl_lock"]]
    /\ log' = [log EXCEPT !.nops = @ + 1, !.plain = FALSE]
    /\ UNCHANGED <<storeVars, startup_verification_done, lockVars, threads, envVars>>
    /\ UNCHANGED pendVars
    /\ UNCHANGED fwdVars

\* verify_topics_command lines 1528-1531
StartVerify(p) ==
    /\ proc[p].pc = "idle"
    /\ startup_verification_done' = FALSE
    /\ proc' = [proc EXCEPT ![p] =
            [Begin("verify", NoSrc) EXCEPT !.pc = "sv_lock",
                                           !.old_count = Len(server_topics)]]
    /\ log' = [log EXCEPT !.nops = @ + 1, !.plain = FALSE]
    /\ UNCHANGED <<storeVars, lockVars, threads, envVars>>
    /\ UNCHANGED pendVars
    /\ UNCHANGED fwdVars

\* verify_existing_topics, run by the gateway client when it starts
StartVerifyExisting(p) ==
    /\ proc[p].pc = "idle"
    /\ proc' = [proc EXCEPT ![p] = [Begin("verify_existing", NoSrc) EXCEPT !.pc = "ve_scan"]]
    /\ log' = Started(FALSE)
    /\ UNCHANGED <<storeVars, startup_verification_done, lockVars, threads, envVars>>
    /\ UNCHANGED pendVars
    /\ UNCHANGED fwdVars

\* sync_servers lines 115-130, called by op
SyncEntry(op) ==
    [IdleProc EXCEPT !.op = op,
                     !.cur = registry,
                     !.tops = Keys(server_topics),
                     !.pc = IF startup_verification_done
                            THEN "cl_lock" ELSE "sv_lock",
                     !.stack = IF startup_verification_done
                               THEN <<"ss_cleaned">>
                               ELSE <<"cl_lock", "ss_cleaned">>]

\* sync_servers lines 115-130
StartSync(p) ==
    /\ proc[p].pc = "idle"
    /\ proc' = [proc EXCEPT ![p] = SyncEntry("sync")]
    /\ log' = Started(FALSE)
    /\ UNCHANGED <<storeVars, startup_verification_done, lockVars, threads, envVars>>
    /\ UNCHANGED pendVars
    /\ UNCHANGED fwdVars

\* reset_topics lines 1510-1515
ResetTopics(p) ==
    /\ proc[p].pc = "idle"
    /\ topic_creation_lock = 0
    /\ server_topics' = << >>
    /\ topic_name_cache' = EmptyCache
    /\ startup_verification_done' = FALSE
    /\ saved_topics' = SaveData(<< >>)
    /\ log' = Started(FALSE)
    /\ UNCHANGED <<lockVars, threads, envVars, proc>>
    /\ UNCHANGED pendVars
    /\ UNCHANGED fwdVars

(***************************************************************************)
(* What happens outside the program.                                       *)
(***************************************************************************)
EnvStep(plain) ==
    log' = [log EXCEPT !.nenv = @ + 1, !.seq = 0, !.plain = @ /\ plain]

\* somebody deletes a thread in the destination chat
EnvDeleteThread(t) ==
    /\ t \in 1..Len(threads) /\ threads[t].st # "deleted"
    /\ threads' = [threads EXCEPT ![t].st = "deleted"]
    /\ EnvStep(TRUE)
    /\ UNCHANGED <<storeVars, startup_verification_done, lockVars, envVars, proc>>
    /\ UNCHANGED pendVars
    /\ UNCHANGED fwdVars

\* somebody renames a thread to the topic name of server_name
EnvRenameThread(t, server_name) ==
    /\ t \in 1..Len(threads) /\ threads[t].st = "open"
    /\ threads[t].name # TopicName(server_name)
    /\ threads' = [threads EXCEPT ![t].name = TopicName(server_name)]
    /\ EnvStep(FALSE)
    /\ UNCHANGED <<storeVars, startup_verification_done, lockVars, envVars, proc>>
    /\ UNCHANGED pendVars
    /\ UNCHANGED fwdVars

\* topics are switched off or on in the destination chat
EnvChatFlip ==
    /\ is_forum' = ~is_forum
    /\ EnvStep(FALSE)
    /\ UNCHANGED <<storeVars, startup_verification_done, lockVars, threads,
                   create_ok, registry, proc>>
    /\ UNCHANGED pendVars
    /\ UNCHANGED fwdVars

\* create_forum_topic starts or stops failing (rights, rate limit, network)
EnvCreateFlip ==
    /\ create_ok' = ~create_ok
    /\ EnvStep(FALSE)
    /\ UNCHANGED <<storeVars, startup_verification_done, lockVars, threads,
                   is_forum, registry, proc>>
    /\ UNCHANGED pendVars
    /\ UNCHANGED fwdVars

\* writing the data file starts or stops failing (disk full, rights)
EnvSaveFlip ==
    /\ save_ok' = ~save_ok
    /\ EnvStep(FALSE)
    /\ UNCHANGED <<storeVars, startup_verification_done, lockVars, threads,
                   envVars, proc>>
    /\ UNCHANGED pendVars
    /\ UNCHANGED <<access, feed, gateway, fallback, forwarded>>

\* a server leaves or enters config.SERVER_CHANNEL_MAPPINGS
EnvRegistry(server_name) ==
    /\ registry' = IF server_name \in registry
                   THEN registry \ {server_name} ELSE registry \cup {server_name}
    /\ EnvStep(FALSE)
    /\ UNCHANGED <<storeVars, startup_verification_done, lockVars, threads,
                   is_forum, create_ok, proc>>
    /\ UNCHANGED pendVars
    /\ UNCHANGED fwdVars

(***************************************************************************)
(* Channel access sets of DiscordWebSocketService and the fallback thread  *)
(* of DiscordTelegramParser, as they are after construction.               *)
(***************************************************************************)
NumRegistryChannels == 2
RegistryChannels == 1..NumRegistryChannels

\* a channel missing from the guild snapshot of READY
NoChannel == << >>

InitChannelSets ==
    [http_works |-> [c \in RegistryChannels |-> FALSE],
     guilds_data |-> [c \in RegistryChannels |-> NoChannel],
     http_accessible_channels |-> {},
     websocket_accessible_channels |-> {},
     subscribed_channels |-> {},
     tested |-> 0]

InitFallback == [phase |-> "init", wake |-> 0]

\* channel names, letter by letter
Announcement == <<"a", "n", "n", "o", "u", "n", "c", "e", "m", "e", "n", "t">>
Announcements == Announcement \o <<"s">>
UpperAnnouncements == <<"A", "N", "N", "O", "U", "N", "C", "E", "M", "E", "N", "T", "S">>
AnnouncementsRu == Announcements \o <<"-", "r", "u">>
News == <<"n", "e", "w", "s">>
ChannelNames == {Announcement, Announcements, UpperAnnouncements, AnnouncementsRu, News}

UpperLetters == <<"A", "C", "E", "M", "N", "O", "S", "T", "U">>
LowerLetters == <<"a", "c", "e", "m", "n", "o", "s", "t", "u">>

\* str.lower
Lower(name) ==
    [i \in 1..Len(name) |->
        IF \E j \in 1..Len(UpperLetters) : UpperLetters[j] = name[i]
        THEN LowerLetters[CHOOSE j \in 1..Len(UpperLetters) : UpperLetters[j] = name[i]]
        ELSE name[i]]

\* str.endswith
EndsWith(name, suffix) ==
    /\ Len(name) >= Len(suffix)
    /\ SubSeq(name, Len(name) - Len(suffix) + 1, Len(name)) = suffix

\* check_websocket_channel_access lines 557-567
CheckWebsocketChannelAccess(channel_id, guilds_data) ==
    /\ guilds_data[channel_id] # NoChannel
    /\ LET lower_name == Lower(guilds_data[channel_id])
       IN EndsWith(lower_name, Announcement) \/ EndsWith(lower_name, Announcements)

\* hybrid_channel_verification lines 497-533, one channel of the registry:
\* test_http_access, check_websocket_channel_access and the four cases
HybridVerifyChannel ==
    /\ access.tested < NumRegistryChannels
    /\ LET channel_id == access.tested + 1
           http_works == access.http_works[channel_id]
           websocket_works == CheckWebsocketChannelAccess(channel_id, access.guilds_data)
       IN access' =
            [access EXCEPT
                !.tested = channel_id,
                !.http_accessible_channels =
                    IF http_works THEN @ \cup {channel_id} ELSE @,
                !.websocket_accessible_channels =
                    IF websocket_works THEN @ \cup {channel_id} ELSE @,
                !.subscribed_channels =
                    IF websocket_works THEN @ \cup {channel_id} ELSE @]
    /\ UNCHANGED <<topicVars, pendVars, save_ok, feed, gateway, fallback, forwarded>>

(***************************************************************************)
(* Pending sources: NewServerHandler (app.py) and the push path of         *)
(* DiscordWebSocketService.  The clock counts seconds.  It advances by     *)
(* poll_interval while no loop is due and no execution context is inside a *)
(* call, and it stops at Horizon, where the loops go on running.           *)
(***************************************************************************)
verification_delay == 180
sweep_interval == 30
grace_period == 60
poll_interval == 10
retention == 3600

Horizon == 190
StartBy == 10
NumChannels == 2
MaxPendEnv == 2

PendSources == {SrcA, SrcB}
guild_name == SrcB
HandlerProc == 1
WsProc == 2

\* list(channels.keys()) of an entry, and the slice [:1] that is probed
ChannelKeys == [c \in 1..NumChannels |-> c]
ProbedChannels == SubSeq(ChannelKeys, 1, 1)

Later(t) == IF t > Horizon THEN Horizon ELSE t

InitHandler ==
    [started |-> FALSE, wake |-> 0, current_time |-> 0, swept |-> FALSE, todo |-> << >>]

\* rejoin is the task created by a second GUILD_CREATE for the same guild
NoRejoin == [st |-> "none", start_time |-> 0]

InitWsPending ==
    [st |-> "none", join_time |-> 0, start_time |-> 0, wake |-> 0, rejoin |-> NoRejoin]

InitAccess ==
    [chan |-> [s \in PendSources |-> [c \in 1..NumChannels |-> FALSE]],
     guild |-> FALSE]

InitAdmitted ==
    [attempted |-> [s \in PendSources |-> FALSE],
     forced |-> [s \in PendSources |-> FALSE],
     early |-> [s \in PendSources |-> FALSE],
     result |-> [s \in PendSources |-> "none"],
     open_any |-> [s \in PendSources |-> FALSE],
     open_first |-> [s \in PendSources |-> FALSE],
     ws_done |-> FALSE,
     ws_forced |-> FALSE,
     ws_early |-> FALSE]

\* run line 608 and delayed_server_processing line 229: the delay is over
DelayElapsedAfterGrace(time_elapsed) == time_elapsed >= grace_period

DelayElapsed(time_elapsed) == time_elapsed >= verification_delay

\* session.get(.../channels/{channel_id}/messages?limit=1) answers 200
Accessible(server_name, channel_id) == channel_access.chan[server_name][channel_id]

\* a probe that never succeeds
NeverVerified(server_name) == FALSE

\* NewServerHandler.check_server_verification: 200 on the probed channel is
\* True, 403, any other status and any exception are False
CheckServerVerification(server_name) ==
    \E i \in 1..Len(ProbedChannels) : Accessible(server_name, ProbedChannels[i])

\* DiscordWebSocketService.check_server_verification: the guild's channel list
\* is readable and holds a text or announcement channel
WsCheckServerVerification == channel_access.guild

\* run lines 598-617 for one entry of pending_servers
TimeElapsed(e, current_time) == current_time - e.v.join_time

Due(e, current_time) ==
    /\ ~e.v.processed
    /\ \/ DelayElapsed(TimeElapsed(e, current_time))
       \/ /\ TimeElapsed(e, current_time) >= grace_period
          /\ CheckServerVerification(e.k)

RECURSIVE KeysOf(_)
KeysOf(d) == IF d = << >> THEN << >> ELSE <<Head(d).k>> \o KeysOf(Tail(d))

ServersToProcess(current_time) ==
    LET IsDue(e) == Due(e, current_time) IN KeysOf(SelectSeq(pending_servers, IsDue))

\* a clean-up that drops every entry older than an hour
ExpireUnprocessed(d, current_time) ==
    LET Kept(e) == ~(e.v.join_time < current_time - retention)
    IN SelectSeq(d, Kept)

\* run lines 630-637: processed entries older than an hour are dropped
Expire(d, current_time) ==
    LET Kept(e) == ~(e.v.processed /\ e.v.join_time < current_time - retention)
    IN SelectSeq(d, Kept)

\* what the sweep at current_time saw and did, for the record of the run
InGrace(e, current_time) ==
    /\ ~e.v.processed
    /\ TimeElapsed(e, current_time) >= grace_period
    /\ TimeElapsed(e, current_time) < verification_delay

Observe(current_time, todo) ==
    LET In(s) == \E i \in 1..Len(todo) : todo[i] = s
        Entry(s) == [k |-> s, v |-> Get(pending_servers, s)]
        Seen(s) == Has(pending_servers, s) /\ InGrace(Entry(s), current_time)
    IN [admitted EXCEPT
          !.attempted = [s \in PendSources |-> @[s] \/ In(s)],
          !.forced = [s \in PendSources |->
                @[s] \/ (In(s) /\ ~(Seen(s) /\ CheckServerVerification(s)))],
          !.early = [s \in PendSources |->
                @[s] \/ (/\ In(s)
                         /\ ~(Seen(s) /\ CheckServerVerification(s))
                         /\ current_time < Entry(s).v.join_time + verification_delay)],
          !.open_any = [s \in PendSources |->
                @[s] \/ (Seen(s) /\ \E c \in 1..NumChannels : Accessible(s, c))],
          !.open_first = [s \in PendSources |->
                @[s] \/ (Seen(s) /\ Accessible(s, ChannelKeys[1]))]]

\* process_new_server lines 463-473: the server enters the configuration and
\* the Guard is called
ProcessNewServer(server_name) ==
    GuardEntry([Begin("process", server_name) EXCEPT !.stack = <<"pn_topic">>])

\* run line 592 after the last entry: the next sweep
SweepDone(h) ==
    [h EXCEPT !.wake = Later(now + sweep_interval), !.todo = << >>, !.swept = TRUE]

\* discover_channels lines 41-53 and initial_sync lines 186-190:
\* schedule_new_server_processing for a server without a mapping
Schedule(server_name) ==
    /\ ~handler.started
    /\ ~Has(server_topics, server_name)
    /\ pending_servers' = Put(pending_servers, server_name,
                              [join_time |-> now, processed |-> FALSE])
    /\ registry' = registry \cup {server_name}
    /\ UNCHANGED <<storeVars, startup_verification_done, lockVars, threads,
                   is_forum, create_ok, proc, log>>
    /\ UNCHANGED <<now, handler, ws_pending, channel_access, admitted>>
    /\ UNCHANGED fwdVars

\* DiscordTelegramParser.run lines 376-380: the handler thread starts with its
\* first sleep
StartHandler ==
    /\ ~handler.started
    /\ handler' = [handler EXCEPT !.started = TRUE,
                                  !.wake = Later(now + sweep_interval)]
    /\ UNCHANGED topicVars
    /\ UNCHANGED <<now, pending_servers, ws_pending, channel_access, admitted>>
    /\ UNCHANGED fwdVars

\* NewServerHandler.run lines 594-623: one pass over pending_servers, up to the
\* Guard call for the first server to process
Sweep ==
    /\ handler.started
    /\ proc[HandlerProc].pc = "idle"
    /\ now >= handler.wake
    /\ LET current_time == now
           servers_to_process == ServersToProcess(current_time)
       IN /\ admitted' = Observe(current_time, servers_to_process)
          /\ IF servers_to_process = << >>
             THEN /\ pending_servers' = Expire(pending_servers, current_time)
                  /\ handler' = [SweepDone(handler) EXCEPT !.current_time = current_time]
                  /\ UNCHANGED <<proc, registry>>
             ELSE /\ handler' = [handler EXCEPT !.current_time = current_time,
                                                !.todo = Tail(servers_to_process)]
                  /\ proc' = [proc EXCEPT ![HandlerProc] =
                                ProcessNewServer(Head(servers_to_process))]
                  /\ registry' = registry \cup {Head(servers_to_process)}
                  /\ UNCHANGED pending_servers
    /\ UNCHANGED <<storeVars, startup_verification_done, lockVars, threads,
                   is_forum, create_ok, log>>
    /\ UNCHANGED <<now, ws_pending, channel_access>>
    /\ UNCHANGED fwdVars

\* process_new_server lines 476-583 and run lines 624-637: no thread is False,
\* a thread is True (the messages sent afterwards do not decide the result:
\* _send_message answers None when it fails); True marks the entry; then the
\* next server, or the end of the pass
PnTopic ==
    /\ proc[HandlerProc].pc = "pn_topic"
    /\ LET server_name == proc[HandlerProc].srv
           topic_id == proc[HandlerProc].ret
           marked == IF topic_id # NoTid /\ Has(pending_servers, server_name)
                     THEN Put(pending_servers, server_name,
                              [Get(pending_servers, server_name) EXCEPT !.processed = TRUE])
                     ELSE pending_servers
       IN /\ admitted' = [admitted EXCEPT !.result[server_name] =
                              IF topic_id # NoTid THEN "ok" ELSE "failed"]
          /\ IF handler.todo # << >>
             THEN /\ pending_servers' = marked
                  /\ handler' = [handler EXCEPT !.todo = Tail(@)]
                  /\ proc' = [proc EXCEPT ![HandlerProc] =
                                ProcessNewServer(Head(handler.todo))]
                  /\ registry' = registry \cup {Head(handler.todo)}
             ELSE /\ pending_servers' = Expire(marked, handler.current_time)
                  /\ handler' = SweepDone(handler)
                  /\ proc' = [proc EXCEPT ![HandlerProc] = IdleProc]
                  /\ UNCHANGED registry
    /\ UNCHANGED <<storeVars, startup_verification_done, lockVars, threads,
                   is_forum, create_ok, log>>
    /\ UNCHANGED <<now, ws_pending, channel_access>>
    /\ UNCHANGED fwdVars

\* handle_new_guild lines 192-214 for a server missing from the configuration
\* (a known server is processed at once and gets no pending entry)
HandleNewGuild ==
    /\ ws_pending.st = "none"
    /\ guild_name \notin registry
    /\ ws_pending' = [st |-> "created", join_time |-> now, start_time |-> 0,
                      wake |-> now, rejoin |-> NoRejoin]
    /\ UNCHANGED topicVars
    /\ UNCHANGED <<now, pending_servers, handler, channel_access, admitted>>
    /\ UNCHANGED fwdVars

\* delayed_server_processing lines 228-246: one turn of the waiting loop; when
\* the loop is left the entry is verified, process_guild_channels puts the
\* server into the configuration and setup_new_server_topic calls the Guard
PushPoll ==
    /\ ws_pending.st \in {"created", "waiting"}
    /\ proc[WsProc].pc = "idle"
    /\ now >= ws_pending.wake
    /\ LET start_time == IF ws_pending.st = "created" THEN now
                         ELSE ws_pending.start_time
           seconds == now - start_time
       IN IF ~DelayElapsed(seconds) /\ ~WsCheckServerVerification
          THEN /\ ws_pending' = [ws_pending EXCEPT !.st = "waiting",
                                    !.start_time = start_time,
                                    !.wake = Later(now + poll_interval)]
               /\ UNCHANGED <<proc, registry, admitted>>
          ELSE /\ ws_pending' = [ws_pending EXCEPT !.st = "verified",
                                    !.start_time = start_time]
               /\ admitted' = [admitted EXCEPT
                        !.ws_done = TRUE,
                        !.ws_forced = ~WsCheckServerVerification \/ DelayElapsed(seconds),
                        !.ws_early = now < ws_pending.join_time + verification_delay]
               /\ registry' = registry \cup {guild_name}
               /\ proc' = [proc EXCEPT ![WsProc] =
                        GuardEntry([Begin("setup", guild_name)
                                        EXCEPT !.stack = <<"ws_topic">>])]
    /\ UNCHANGED <<storeVars, startup_verification_done, lockVars, threads,
                   is_forum, create_ok, log>>
    /\ UNCHANGED <<now, pending_servers, handler, channel_access>>
    /\ UNCHANGED fwdVars

\* setup_new_server_topic lines 287-296 and delayed_server_processing lines
\* 249-251: with or without a thread the entry leaves pending_servers
WsTopic ==
    /\ proc[WsProc].pc = "ws_topic"
    /\ ws_pending' = [ws_pending EXCEPT !.st = "done"]
    /\ proc' = [proc EXCEPT ![WsProc] = IdleProc]
    /\ UNCHANGED <<storeVars, startup_verification_done, lockVars, threads,
                   envVars, log>>
    /\ UNCHANGED <<now, pending_servers, handler, channel_access, admitted>>
    /\ UNCHANGED fwdVars

\* Discord starts answering 200 for a channel of a server
EnvGrant(server_name, channel_id) ==
    /\ ~channel_access.chan[server_name][channel_id]
    /\ channel_access' = [channel_access EXCEPT !.chan[server_name][channel_id] = TRUE]
    /\ EnvStep(FALSE)
    /\ UNCHANGED <<storeVars, startup_verification_done, lockVars, threads,
                   envVars, proc>>
    /\ UNCHANGED <<now, pending_servers, handler, ws_pending, admitted>>
    /\ UNCHANGED fwdVars

\* Discord starts listing the channels of the guild
EnvGrantGuild ==
    /\ ~channel_access.guild
    /\ channel_access' = [channel_access EXCEPT !.guild = TRUE]
    /\ EnvStep(FALSE)
    /\ UNCHANGED <<storeVars, startup_verification_done, lockVars, threads,
                   envVars, proc>>
    /\ UNCHANGED <<now, pending_servers, handler, ws_pending, admitted>>
    /\ UNCHANGED fwdVars

\* time.sleep and asyncio.sleep: the clock advances while nothing is due; the
\* handler thread and the task start within StartBy seconds
Tick ==
    /\ now + poll_interval <= Horizon
    /\ \A p \in Procs : proc[p].pc = "idle"
    /\ IF handler.started THEN now < handler.wake ELSE now < StartBy
    /\ ws_pending.st = "waiting" => now < ws_pending.wake
    /\ ws_pending.st = "created" => now < StartBy
    /\ now' = now + poll_interval
    /\ UNCHANGED topicVars
    /\ UNCHANGED <<pending_servers, handler, ws_pending, channel_access, admitted>>
    /\ UNCHANGED fwdVars

(***************************************************************************)
(* Forwarding of messages: initial_sync, the READY handler and             *)
(* handle_new_message of the gateway client, fallback_polling_loop.  One   *)
(* source, SrcA, with one channel, channel 1 of the registry.  The clock   *)
(* counts seconds and advances by FwdStep while nothing is running or due.  *)
(***************************************************************************)
fallback_interval == 300
recent_window == 120
fallback_limit == 3
sync_limit == 5

FwdStep == 60
FwdHorizon == 300
MaxPosts == 2

FallbackProc == 1
FwdChannel == 1

\* parse_announcement_channel (main.py 41-130): the newest limit messages of
\* the channel, which Discord lists newest first, sorted by timestamp
ParseAnnouncementChannel(limit) ==
    SortByTimestamp(Reverse(IF Len(feed) <= limit THEN feed
                            ELSE SubSeq(feed, Len(feed) - limit + 1, Len(feed))))

\* test_channel_http_access (app.py 102-109)
TestChannelHttpAccess(channel_id) == access.http_works[channel_id]

\* initial_sync lines 166-171: sync_servers first
InitialSync ==
    /\ fallback.phase = "init"
    /\ proc[FallbackProc].pc = "idle"
    /\ fallback' = [fallback EXCEPT !.phase = "sync"]
    /\ proc' = [proc EXCEPT ![FallbackProc] = SyncEntry("initial_sync")]
    /\ UNCHANGED <<storeVars, startup_verification_done, lockVars, threads, envVars, log>>
    /\ UNCHANGED pendVars
    /\ UNCHANGED <<save_ok, access, feed, gateway, forwarded>>

\* initial_sync lines 179-258: a server without a mapping is scheduled and
\* skipped; the last sync_limit messages of an HTTP-accessible channel are
\* sorted and handed to send_messages
InitialFetch(p) ==
    /\ proc[p].pc = "is_fetch"
    /\ IF SrcA \notin registry
       THEN /\ proc' = [proc EXCEPT ![p] = IdleProc]
            /\ UNCHANGED pending_servers
       ELSE IF ~Has(server_topics, SrcA)
       THEN /\ pending_servers' = Put(pending_servers, SrcA,
                                      [join_time |-> now, processed |-> FALSE])
            /\ proc' = [proc EXCEPT ![p] = IdleProc]
       ELSE LET messages == IF TestChannelHttpAccess(FwdChannel)
                            THEN SortByTimestamp(ParseAnnouncementChannel(sync_limit))
                            ELSE << >>
            IN /\ proc' = [proc EXCEPT ![p] =
                        IF messages = << >> THEN IdleProc
                        ELSE DEntry([Begin("deliver", SrcA) EXCEPT !.msgs = messages])]
               /\ UNCHANGED pending_servers
    /\ UNCHANGED <<storeVars, startup_verification_done, lockVars, threads, envVars, log>>
    /\ UNCHANGED <<now, handler, ws_pending, channel_access, admitted>>
    /\ UNCHANGED fwdVars

\* run lines 352-372: after initial_sync the gateway client and the fallback
\* thread are started; the fallback loop begins with its sleep, the READY
\* handler (discord_websocket.py 45-60) with verify_existing_topics
StartThreads ==
    /\ fallback.phase = "sync"
    /\ \A p \in Procs : proc[p].pc = "idle"
    /\ fallback' = [phase |-> "running", wake |-> now + fallback_interval]
    /\ proc' = [proc EXCEPT ![WsProc] =
            [Begin("ready", NoSrc) EXCEPT !.pc = "ve_scan"]]
    /\ UNCHANGED <<storeVars, startup_verification_done, lockVars, threads, envVars, log>>
    /\ UNCHANGED pendVars
    /\ UNCHANGED <<save_ok, access, feed, gateway, forwarded>>

\* the READY handler goes on with hybrid_channel_verification
ReadyVerifyChannel ==
    /\ fallback.phase = "running"
    /\ proc[WsProc].pc = "idle"
    /\ HybridVerifyChannel

GatewayReady == fallback.phase = "running" /\ access.tested = NumRegistryChannels

\* somebody posts a message in the channel; a connected gateway gets a
\* MESSAGE_CREATE event for it
Post ==
    /\ Len(feed) < MaxPosts
    /\ LET m == [id |-> Len(feed) + 1, ts |-> now, channel_id |-> FwdChannel]
       IN /\ feed' = Append(feed, m)
          /\ gateway' = IF fallback.phase = "running" THEN Append(gateway, m)
                        ELSE gateway
    /\ UNCHANGED <<topicVars, pendVars, save_ok, access, fallback, forwarded>>

\* handle_gateway_message line 62 and handle_new_message lines 569-650: events
\* of channels that are not subscribed or not in the registry are ignored, the
\* others are handed to forward_to_telegram
HandleNewMessage ==
    /\ GatewayReady
    /\ gateway # << >>
    /\ proc[WsProc].pc = "idle"
    /\ gateway' = Tail(gateway)
    /\ LET message == Head(gateway) IN
       proc' = IF /\ message.channel_id \in access.subscribed_channels
                  /\ SrcA \in registry
               THEN [proc EXCEPT ![WsProc] =
                        FGet([Begin("forward", SrcA) EXCEPT !.msgs = <<message>>])]
               ELSE proc
    /\ UNCHANGED <<storeVars, startup_verification_done, lockVars, threads, envVars, log>>
    /\ UNCHANGED pendVars
    /\ UNCHANGED <<save_ok, access, feed, fallback, forwarded>>

\* fallback_polling_loop lines 275-339, one round: the last fallback_limit
\* messages of the channel that are younger than recent_window are sorted and
\* handed to send_messages
FallbackSweep ==
    /\ fallback.phase = "running"
    /\ proc[FallbackProc].pc = "idle"
    /\ now >= fallback.wake
    /\ LET recent_threshold == now - recent_window
           recent_messages ==
               IF /\ SrcA \in registry
                  /\ ~Has(pending_servers, SrcA)
                  /\ TestChannelHttpAccess(FwdChannel)
               THEN ParseAnnouncementChannel(fallback_limit)
               ELSE << >>
           IsRecent(msg) == msg.ts > recent_threshold
           msgs == SortByTimestamp(SelectSeq(recent_messages, IsRecent))
       IN proc' = IF msgs = << >> THEN proc
                  ELSE [proc EXCEPT ![FallbackProc] =
                            DEntry([Begin("deliver", SrcA) EXCEPT !.msgs = msgs])]
    /\ fallback' = [fallback EXCEPT !.wake = now + fallback_interval]
    /\ UNCHANGED <<storeVars, startup_verification_done, lockVars, threads, envVars, log>>
    /\ UNCHANGED pendVars
    /\ UNCHANGED <<save_ok, access, feed, gateway, forwarded>>

FwdTick ==
    /\ now + FwdStep <= FwdHorizon
    /\ GatewayReady
    /\ \A p \in Procs : proc[p].pc = "idle"
    /\ gateway = << >>
    /\ now < fallback.wake
    /\ now' = now + FwdStep
    /\ UNCHANGED topicVars
    /\ UNCHANGED <<pending_servers, handler, ws_pending, channel_access, admitted>>
    /\ UNCHANGED fwdVars

(***************************************************************************)
(* The concurrent specification: NumProcs execution contexts.              *)
(***************************************************************************)
InitTopics ==
    /\ server_topics = << >>
    /\ topic_name_cache = EmptyCache
    /\ saved_topics = << >>
    /\ startup_verification_done = FALSE
    /\ topic_creation_lock = 0
    /\ topic_sync_lock = 0
    /\ threads = << >>
    /\ is_forum = TRUE
    /\ create_ok = TRUE
    /\ proc = [p \in Procs |-> IdleProc]
    /\ log = InitLog

InitPend ==
    /\ now = 0
    /\ pending_servers = << >>
    /\ handler = InitHandler
    /\ ws_pending = InitWsPending
    /\ channel_access = InitAccess
    /\ admitted = InitAdmitted

InitFwd ==
    /\ save_ok = TRUE
    /\ access = InitChannelSets
    /\ feed = << >>
    /\ gateway = << >>
    /\ fallback = InitFallback
    /\ forwarded = << >>

Init == InitTopics /\ registry = GuardSources /\ InitPend /\ InitFwd

GuardStep(p) ==
    \/ GuardFast(p)
    \/ GuardFastProbe(p)
    \/ GuardLock(p)
    \/ GuardCheckProbe(p)
    \/ GuardChat(p)
    \/ GuardCreate(p)

PassStep(p) ==
    \/ SvLock(p)
    \/ SvApply(p)
    \/ ClLock(p)
    \/ ClApply(p)

VeStep(p) ==
    \/ VeScan(p)
    \/ VeSync(p)

DeliveryStep(p) ==
    \/ AfterVerification(p)
    \/ FChat(p)
    \/ SmTry(p)
    \/ DSave(p)

StartStep(p) ==
    \/ \E s \in GuardSources : StartAcquire(p, s)
    \/ \E s \in GuardSources : StartDeliver(p, s)
    \/ \E s \in GuardSources : StartForward(p, s)
    \/ StartCleanup(p)
    \/ StartVerify(p)
    \/ StartVerifyExisting(p)
    \/ StartSync(p)
    \/ ResetTopics(p)

EnvNext ==
    \/ \E t \in ThreadIds : EnvDeleteThread(t)
    \/ \E t \in ThreadIds, s \in GuardSources : EnvRenameThread(t, s)
    \/ EnvChatFlip
    \/ EnvCreateFlip
    \/ \E s \in GuardSources : EnvRegistry(s)

Next ==
    \/ \E p \in Procs :
        \/ log.nops < MaxOps /\ StartStep(p)
        \/ GuardStep(p)
        \/ PassStep(p)
        \/ VeStep(p)
        \/ DeliveryStep(p)
        \/ SsCleaned(p)
    \/ log.nenv < MaxEnv /\ EnvNext

Spec == Init /\ [][Next]_vars

(***************************************************************************)
(* Callers of the Guard only: nothing but _get_or_create_topic_safe writes *)
(* mappings, the destination has topics and accepts create_forum_topic.    *)
(***************************************************************************)
NextGuard ==
    \E p \in Procs :
        \/ log.nops < MaxCalls /\ \E s \in GuardSources : StartAcquire(p, s)
        \/ GuardStep(p)
        \/ SvLock(p)
        \/ SvApply(p)

SpecGuard == Init /\ [][NextGuard]_vars

(***************************************************************************)
(* Shutdown.  run (app.py 346-414) starts every thread with daemon=True    *)
(* (86, 358, 370, 378) and waits in "while self.running: sleep(1)".  On    *)
(* KeyboardInterrupt it clears the running flags (401, 405, 409) and       *)
(* returns; main (650-661) returns after it and the interpreter ends,      *)
(* which abandons daemon threads wherever they are.  No thread is joined   *)
(* and run takes no lock.  The phase "stopped" of fallback stands for the  *)
(* ended process: no context takes a step in it.                           *)
(***************************************************************************)
InitShutdown ==
    /\ InitTopics /\ registry = GuardSources /\ InitPend
    /\ save_ok = TRUE /\ access = InitChannelSets /\ feed = << >> /\ gateway = << >>
    /\ fallback = [phase |-> "running", wake |-> fallback_interval]
    /\ forwarded = << >>

Shutdown ==
    /\ fallback.phase = "running"
    /\ fallback' = [fallback EXCEPT !.phase = "stopped"]
    /\ UNCHANGED <<topicVars, pendVars, save_ok, access, feed, gateway, forwarded>>

NextShutdown ==
    \/ fallback.phase = "running" /\ NextGuard
    \/ Shutdown

SpecShutdown == InitShutdown /\ [][NextShutdown]_vars

(***************************************************************************)
(* The Guard and the startup verification while get_forum_topic may fail   *)
(* for a thread: with an ApiException that does not say "not found" or     *)
(* with any other exception (a timeout, a connection error).               *)
(***************************************************************************)
ProbeOutcomes == {"answers", "api_error", "fails"}

EnvProbe(t, outcome) ==
    /\ t \in 1..Len(threads) /\ threads[t].probe # outcome
    /\ threads' = [threads EXCEPT ![t].probe = outcome]
    /\ EnvStep(FALSE)
    /\ UNCHANGED <<storeVars, startup_verification_done, lockVars, envVars, proc>>
    /\ UNCHANGED pendVars
    /\ UNCHANGED fwdVars

NextProbe ==
    \/ NextGuard
    \/ log.nenv < MaxEnv /\ \E t \in ThreadIds, o \in ProbeOutcomes : EnvProbe(t, o)

SpecProbe == Init /\ [][NextProbe]_vars

(***************************************************************************)
(* One execution context running the reconciliation passes one after the   *)
(* other; the destination changes only between operations.                 *)
(***************************************************************************)
Quiet == \A p \in Procs : proc[p].pc = "idle"

NextReconcile ==
    \/ /\ log.nops < MaxPassOps
       /\ \/ \E s \in AllSources : StartAcquire(1, s)
          \/ StartCleanup(1)
          \/ StartVerify(1)
          \/ StartVerifyExisting(1)
    \/ GuardStep(1)
    \/ PassStep(1)
    \/ VeStep(1)
    \/ /\ Quiet
       /\ log.nenv < MaxPassEnv
       /\ \/ \E t \in ThreadIds : EnvDeleteThread(t)
          \/ EnvChatFlip

SpecReconcile == Init /\ [][NextReconcile]_vars

(***************************************************************************)
(* Deliveries only: send_messages and forward_to_telegram for one source,  *)
(* while threads are deleted in the chat and the data file may not be      *)
(* writable.                                                               *)
(***************************************************************************)
\* send_messages and get_server_topic_id run the startup verification before
\* the Guard is called, so the Guard never runs it itself here
DeliveryCall(p) ==
    \/ SvLock(p)
    \/ SvApply(p)
    \/ GuardFastProbe(p)
    \/ GuardLock(p)
    \/ GuardCheckProbe(p)
    \/ GuardChat(p)
    \/ GuardCreate(p)

NextDelivery ==
    \/ \E p \in Procs :
        \/ log.nops < MaxDelOps /\ StartDeliver(p, SrcA)
        \/ log.nops < MaxDelOps /\ StartForward(p, SrcA)
        \/ DeliveryCall(p)
        \/ DeliveryStep(p)
    \/ /\ log.nenv < MaxDelEnv
       /\ \/ \E t \in ThreadIds : EnvDeleteThread(t)
          \/ EnvSaveFlip

SpecDelivery == Init /\ [][NextDelivery]_vars

(***************************************************************************)
(* send_messages called by one context with lists of SrcA in any order of  *)
(* timestamps, while threads are deleted in the chat.                      *)
(***************************************************************************)
MaxBatch == 3
MaxTs == 2

\* the lists of up to MaxBatch messages with timestamps up to MaxTs
Batches ==
    UNION {{[i \in 1..n |-> [id |-> i, ts |-> f[i], channel_id |-> FwdChannel]] :
                f \in [1..n -> 0..MaxTs]} : n \in 1..MaxBatch}

\* send_messages(messages)
StartBatch(p, messages) ==
    /\ proc[p].pc = "idle"
    /\ proc' = [proc EXCEPT ![p] =
            DEntry([Begin("deliver", SrcA) EXCEPT !.msgs = messages])]
    /\ log' = Started(TRUE)
    /\ UNCHANGED <<storeVars, startup_verification_done, lockVars, threads, envVars>>
    /\ UNCHANGED pendVars
    /\ UNCHANGED fwdVars

BatchProc == 1

NextBatch ==
    \/ log.nops < MaxDelOps /\ \E b \in Batches : StartBatch(BatchProc, b)
    \/ SvLock(BatchProc)
    \/ SvApply(BatchProc)
    \/ AfterVerification(BatchProc)
    \/ GuardLock(BatchProc)
    \/ GuardChat(BatchProc)
    \/ GuardCreate(BatchProc)
    \/ SmTry(BatchProc)
    \/ DSave(BatchProc)
    \/ /\ log.nenv < MaxDelEnv
       /\ \E t \in ThreadIds : EnvDeleteThread(t)

SpecBatch == Init /\ [][NextBatch]_vars

(***************************************************************************)
(* The fetch loop of parse_announcement_channel (main.py 41-130).  One     *)
(* turn of "while has_more" is one step; the answer of Discord to the      *)
(* request of the turn is any of Responses.  The channel holds feed, whose *)
(* messages have their position as id; last_id 0 stands for None.          *)
(***************************************************************************)
NumTokens == 2
MaxLimit == 4
batch_size == 10
ParseProc == 1

Responses == {"ok", "rate_limited", "forbidden", "error", "exception"}

MinOf(a, b) == IF a <= b THEN a ELSE b

\* what Discord returns for params {'limit': n, 'before': last_id}: the n
\* newest messages older than last_id, newest first
FetchBatch(n, last_id) ==
    LET avail == IF last_id = 0 THEN Len(feed) ELSE last_id - 1
        k == MinOf(n, avail)
    IN [i \in 1..k |-> feed[avail - i + 1]]

\* lines 43-47
ParseCall(p, limit) ==
    /\ proc[p].pc = "idle"
    /\ proc' = [proc EXCEPT ![p] =
            [IdleProc EXCEPT !.op = "parse", !.pc = "pa_request", !.limit = limit]]
    /\ log' = Started(TRUE)
    /\ UNCHANGED <<storeVars, startup_verification_done, lockVars, threads, envVars>>
    /\ UNCHANGED pendVars
    /\ UNCHANGED fwdVars

\* the next token of the rotation (lines 112, 119, 125)
RotateToken(pr) == [pr EXCEPT !.token_index = (@ + 1) % NumTokens]

\* the loop is left (lines 58, 68, 98) and the sorted list returned (128)
ParseBreak(pr) == [pr EXCEPT !.pc = "pa_done", !.msgs = SortByTimestamp(@)]

\* one turn of the loop, lines 49-126
ParseTurn(pr, response) ==
    IF pr.limit # 0 /\ pr.count >= pr.limit THEN ParseBreak(pr)
    ELSE IF response = "ok"
    THEN LET n == IF pr.limit # 0 THEN MinOf(batch_size, pr.limit - pr.count)
                  ELSE batch_size
             batch == FetchBatch(n, pr.last_id)
         IN IF batch = << >> THEN ParseBreak(pr)
            ELSE [pr EXCEPT !.msgs = @ \o batch,
                            !.last_id = batch[Len(batch)].id,
                            !.count = @ + Len(batch)]
    ELSE IF response = "rate_limited" THEN pr
    ELSE RotateToken(pr)

ParseRequest(p, response) ==
    /\ proc[p].pc = "pa_request"
    /\ proc' = [proc EXCEPT ![p] = ParseTurn(proc[p], response)]
    /\ UNCHANGED <<storeVars, startup_verification_done, lockVars, threads, envVars, log>>
    /\ UNCHANGED pendVars
    /\ UNCHANGED fwdVars

\* the caller takes the list
ParseReturn(p) ==
    /\ proc[p].pc = "pa_done"
    /\ proc' = [proc EXCEPT ![p] = IdleProc]
    /\ UNCHANGED <<storeVars, startup_verification_done, lockVars, threads, envVars, log>>
    /\ UNCHANGED pendVars
    /\ UNCHANGED fwdVars

InitParse ==
    /\ InitTopics /\ registry = GuardSources /\ InitPend
    /\ save_ok = TRUE /\ access = InitChannelSets /\ gateway = << >>
    /\ feed \in Batches \cup {<< >>}
    /\ fallback = InitFallback /\ forwarded = << >>

ParseStep == \E r \in Responses : ParseRequest(ParseProc, r)

NextParse ==
    \/ log.nops < MaxCalls /\ \E limit \in 1..MaxLimit : ParseCall(ParseProc, limit)
    \/ ParseStep
    \/ ParseReturn(ParseProc)

SpecParse == InitParse /\ [][NextParse]_vars

\* the thread running the loop keeps running
SpecParseFair == SpecParse /\ WF_vars(ParseStep) /\ WF_vars(ParseReturn(ParseProc))

(***************************************************************************)
(* hybrid_channel_verification on READY: what test_http_access answers for *)
(* each registry channel and what the guild snapshot holds are drawn when  *)
(* the run starts; the access sets start empty.                            *)
(***************************************************************************)
InitHybrid ==
    /\ InitTopics /\ registry = GuardSources /\ InitPend
    /\ save_ok = TRUE /\ feed = << >> /\ gateway = << >>
    /\ fallback = InitFallback /\ forwarded = << >>
    /\ \E h \in [RegistryChannels -> BOOLEAN],
          g \in [RegistryChannels -> ChannelNames \cup {NoChannel}] :
            access = [InitChannelSets EXCEPT !.http_works = h, !.guilds_data = g]

NextHybrid == HybridVerifyChannel

SpecHybrid == InitHybrid /\ [][NextHybrid]_vars

(***************************************************************************)
(* Verification passes one after the other: websocket_main_loop starts the *)
(* gateway client again when its connections have ended, and every READY   *)
(* runs hybrid_channel_verification with the answers of that moment.       *)
(***************************************************************************)
\* app.py 62-72 and handle_gateway_message lines 60-73: a new READY after the
\* pass before it is complete
Reconnect ==
    /\ access.tested = NumRegistryChannels
    /\ \E h \in [RegistryChannels -> BOOLEAN],
          g \in [RegistryChannels -> ChannelNames \cup {NoChannel}] :
            access' = [access EXCEPT !.tested = 0, !.http_works = h, !.guilds_data = g]
    /\ UNCHANGED <<topicVars, pendVars, save_ok, feed, gateway, fallback, forwarded>>

NextReverify == HybridVerifyChannel \/ Reconnect

SpecReverify == InitHybrid /\ [][NextReverify]_vars

(***************************************************************************)
(* Forwarding: the data file holds a mapping of SrcA to an open thread,    *)
(* the channels of the registry answer over HTTP and are in the guild      *)
(* snapshot; nothing fails.                                                *)
(***************************************************************************)
InitForward ==
    /\ server_topics = <<[k |-> SrcA, v |-> 1]>>
    /\ saved_topics = server_topics
    /\ topic_name_cache = EmptyCache
    /\ startup_verification_done = FALSE
    /\ topic_creation_lock = 0
    /\ topic_sync_lock = 0
    /\ threads = <<[name |-> TopicName(SrcA), st |-> "open", src |-> SrcA,
                     probe |-> "answers"]>>
    /\ is_forum = TRUE
    /\ create_ok = TRUE
    /\ registry = {SrcA}
    /\ proc = [p \in Procs |-> IdleProc]
    /\ log = InitLog
    /\ InitPend
    /\ save_ok = TRUE
    /\ access = [InitChannelSets EXCEPT
                    !.http_works = [c \in RegistryChannels |-> TRUE],
                    !.guilds_data = [c \in RegistryChannels |-> Announcements]]
    /\ feed = << >>
    /\ gateway = << >>
    /\ fallback = InitFallback
    /\ forwarded = << >>

NextForward ==
    \/ InitialSync
    \/ SvLock(FallbackProc)
    \/ SvApply(FallbackProc)
    \/ ClLock(FallbackProc)
    \/ ClApply(FallbackProc)
    \/ SsCleaned(FallbackProc)
    \/ InitialFetch(FallbackProc)
    \/ StartThreads
    \/ VeScan(WsProc)
    \/ VeSync(WsProc)
    \/ ReadyVerifyChannel
    \/ Post
    \/ HandleNewMessage
    \/ FallbackSweep
    \/ \E p \in Procs : SmTry(p)
    \/ \E p \in Procs : DSave(p)
    \/ FwdTick

SpecForward == InitForward /\ [][NextForward]_vars

(***************************************************************************)
(* A discovered source without a thread: discover_channels has put SrcA    *)
(* into the configuration and subscribed its channel, the store is empty.  *)
(* DiscordTelegramParser.run goes through initial_sync, which schedules    *)
(* the source as pending, and starts the gateway client and the fallback   *)
(* loop.  NewServerHandler.run is left out, so nothing is admitted and     *)
(* every thread acquired here is acquired outside an admission.            *)
(***************************************************************************)
InitDiscover ==
    /\ InitTopics
    /\ registry = {SrcA}
    /\ InitPend
    /\ save_ok = TRUE
    /\ access = [InitChannelSets EXCEPT
                    !.http_works = [c \in RegistryChannels |-> TRUE],
                    !.guilds_data = [c \in RegistryChannels |-> Announcements]]
    /\ feed = << >>
    /\ gateway = << >>
    /\ fallback = InitFallback
    /\ forwarded = << >>

NextDiscover ==
    \/ NextForward
    \/ FChat(WsProc)
    \/ GuardLock(WsProc)
    \/ GuardChat(WsProc)
    \/ GuardCreate(WsProc)

SpecDiscover == InitDiscover /\ [][NextDiscover]_vars

(***************************************************************************)
(* The same start with the new server handler: its thread is started by    *)
(* run after initial_sync (app.py 353, 376-380) and admits the source that *)
(* initial_sync has scheduled, while the fallback loop goes on.            *)
(***************************************************************************)
\* the sleeps of the handler (app.py 592) and of the fallback loop (276): the
\* clock moves by sweep_interval while no sweep is due; the wake-up times of
\* the handler are tracked up to Horizon
PollTick ==
    /\ now + sweep_interval <= FwdHorizon
    /\ GatewayReady
    /\ \A p \in Procs : proc[p].pc = "idle"
    /\ gateway = << >>
    /\ handler.started
    /\ now < handler.wake \/ handler.wake = Horizon
    /\ now < fallback.wake
    /\ now' = now + sweep_interval
    /\ UNCHANGED topicVars
    /\ UNCHANGED <<pending_servers, handler, ws_pending, channel_access, admitted>>
    /\ UNCHANGED fwdVars

NextPolling ==
    \/ InitialSync
    \/ SvLock(FallbackProc)
    \/ SvApply(FallbackProc)
    \/ ClLock(FallbackProc)
    \/ ClApply(FallbackProc)
    \/ SsCleaned(FallbackProc)
    \/ InitialFetch(FallbackProc)
    \/ StartThreads
    \/ VeScan(WsProc)
    \/ VeSync(WsProc)
    \/ ReadyVerifyChannel
    \/ fallback.phase = "running" /\ now = 0 /\ StartHandler
    \/ Post
    \/ HandleNewMessage
    \/ FallbackSweep
    \/ Sweep
    \/ PnTopic
    \/ \E p \in Procs : FChat(p)
    \/ \E p \in Procs : GuardLock(p)
    \/ \E p \in Procs : GuardChat(p)
    \/ \E p \in Procs : GuardCreate(p)
    \/ \E p \in Procs : SmTry(p)
    \/ \E p \in Procs : DSave(p)
    \/ PollTick

SpecPolling == InitDiscover /\ [][NextPolling]_vars

(***************************************************************************)
(* The pending sources: context HandlerProc runs NewServerHandler.run,     *)
(* context WsProc the task of delayed_server_processing; the configuration *)
(* is empty when the program starts.                                       *)
(***************************************************************************)
InitPending == InitTopics /\ registry = {} /\ InitPend /\ InitFwd

SweepStep ==
    \/ \E s \in PendSources : Schedule(s)
    \/ StartHandler
    \/ Sweep
    \/ PnTopic
    \/ Tick

PushStep ==
    \/ HandleNewGuild
    \/ PushPoll
    \/ WsTopic
    \/ GuardStep(WsProc)
    \/ SvLock(WsProc)
    \/ SvApply(WsProc)

PendEnv ==
    /\ log.nenv < MaxPendEnv
    /\ \/ \E s \in PendSources, c \in 1..NumChannels : EnvGrant(s, c)
       \/ EnvGrantGuild
       \/ EnvChatFlip
       \/ EnvCreateFlip

NextPending ==
    \/ SweepStep
    \/ GuardStep(HandlerProc)
    \/ SvLock(HandlerProc)
    \/ SvApply(HandlerProc)
    \/ PushStep
    \/ PendEnv

SpecPending == InitPending /\ [][NextPending]_vars

\* The sweep alone, with the loop of NewServerHandler.run, its calls and the
\* clock scheduled fairly.  An entry is scheduled for a server without a
\* mapping and only the handler creates one here, so its Guard calls never
\* come to probe a cached id.
HandlerCall ==
    \/ SvLock(HandlerProc)
    \/ SvApply(HandlerProc)
    \/ GuardFast(HandlerProc)
    \/ GuardLock(HandlerProc)
    \/ GuardChat(HandlerProc)
    \/ GuardCreate(HandlerProc)

NextSweep == SweepStep \/ HandlerCall \/ PendEnv

SweepFairness ==
    /\ WF_vars(StartHandler)
    /\ WF_vars(Sweep)
    /\ WF_vars(PnTopic)
    /\ WF_vars(HandlerCall)
    /\ WF_vars(Tick)

SpecPendingFair == InitPending /\ [][NextSweep]_vars /\ SweepFairness

(***************************************************************************)
(* The sweep over more than an hour.  Doze stands for the sweeps of the    *)
(* retention window that change nothing: every entry is processed, or its  *)
(* processing has failed and the chat still yields no thread.              *)
(***************************************************************************)
RetentionHorizon == retention + Horizon

Doze ==
    /\ handler.started
    /\ \A p \in Procs : proc[p].pc = "idle"
    /\ now + retention <= RetentionHorizon
    /\ \A i \in 1..Len(pending_servers) :
          \/ pending_servers[i].v.processed
          \/ /\ admitted.result[pending_servers[i].k] = "failed"
             /\ ~is_forum \/ ~create_ok
    /\ now' = now + retention
    /\ UNCHANGED topicVars
    /\ UNCHANGED <<pending_servers, handler, ws_pending, channel_access, admitted>>
    /\ UNCHANGED fwdVars

NextRetention == NextSweep \/ Doze

SpecRetention == InitPending /\ [][NextRetention]_vars

(***************************************************************************)
(* The admission of one source in detail: process_new_server of the sweep  *)
(* and setup_new_server_topic of the push path, with the messages they     *)
(* send.  The source is guild_name, its announcement channel FwdChannel;   *)
(* the guild joins and the messages are posted within the first StartBy    *)
(* seconds.                                                                *)
(***************************************************************************)
backlog_limit == 5
backlog_keep == 10

\* the welcome message with the count of accessible channels, and the note
\* sent when no message was collected
welcome_msg == [id |-> 0, ts |-> 0, channel_id |-> 0]
info_msg == [id |-> -1, ts |-> 0, channel_id |-> 0]

\* all_messages[-10:]
LastOf(msgs, n) ==
    IF Len(msgs) <= n THEN msgs ELSE SubSeq(msgs, Len(msgs) - n + 1, Len(msgs))

\* a notice that is never sent
SendNothing(sent, message_thread_id, text) == sent

\* _send_message of a text into the thread the Guard has just returned
SendNotice(sent, message_thread_id, text) ==
    IF ThreadOpen(message_thread_id) THEN Append(sent, text) ELSE sent

\* run lines 624-637: True marks the entry; then the next server, or the
\* clean-up and the end of the pass
PnReturn(server_name, ok) ==
    LET marked == IF ok /\ Has(pending_servers, server_name)
                  THEN Put(pending_servers, server_name,
                           [Get(pending_servers, server_name) EXCEPT !.processed = TRUE])
                  ELSE pending_servers
    IN /\ admitted' = [admitted EXCEPT !.result[server_name] =
                           IF ok THEN "ok" ELSE "failed"]
       /\ IF handler.todo # << >>
          THEN /\ pending_servers' = marked
               /\ handler' = [handler EXCEPT !.todo = Tail(@)]
               /\ proc' = [proc EXCEPT ![HandlerProc] =
                             ProcessNewServer(Head(handler.todo))]
               /\ registry' = registry \cup {Head(handler.todo)}
          ELSE /\ pending_servers' = Expire(marked, handler.current_time)
               /\ handler' = SweepDone(handler)
               /\ proc' = [proc EXCEPT ![HandlerProc] = IdleProc]
               /\ UNCHANGED registry

\* process_new_server lines 476-576: no thread is False; otherwise the
\* messages of the accessible channel are collected, the welcome message is
\* sent, and the collected messages, sorted, go to send_messages; without
\* messages the note follows the welcome message
PnWelcome ==
    /\ proc[HandlerProc].pc = "pn_topic"
    /\ LET server_name == proc[HandlerProc].srv
           topic_id == proc[HandlerProc].ret
           all_messages == IF Accessible(server_name, FwdChannel)
                           THEN ParseAnnouncementChannel(backlog_limit)
                           ELSE << >>
           recent_messages == LastOf(SortByTimestamp(all_messages), backlog_keep)
           sent_welcome == SendNotice(forwarded, topic_id, welcome_msg)
       IN IF topic_id = NoTid
          THEN /\ PnReturn(server_name, FALSE)
               /\ UNCHANGED forwarded
          ELSE IF all_messages # << >>
          THEN /\ forwarded' = sent_welcome
               /\ proc' = [proc EXCEPT ![HandlerProc] =
                        DEntry([Begin("deliver", server_name)
                                    EXCEPT !.msgs = recent_messages,
                                           !.stack = <<"pn_sent">>])]
               /\ UNCHANGED <<pending_servers, handler, registry, admitted>>
          ELSE /\ forwarded' = SendNotice(sent_welcome, topic_id, info_msg)
               /\ proc' = [proc EXCEPT ![HandlerProc].pc = "pn_sent"]
               /\ UNCHANGED <<pending_servers, handler, registry, admitted>>
    /\ UNCHANGED <<storeVars, startup_verification_done, lockVars, threads,
                   is_forum, create_ok, log>>
    /\ UNCHANGED <<now, ws_pending, channel_access>>
    /\ UNCHANGED <<save_ok, access, feed, gateway, fallback>>

\* process_new_server lines 578-579: True
PnSent ==
    /\ proc[HandlerProc].pc = "pn_sent"
    /\ PnReturn(proc[HandlerProc].srv, TRUE)
    /\ UNCHANGED <<storeVars, startup_verification_done, lockVars, threads,
                   is_forum, create_ok, log>>
    /\ UNCHANGED <<now, ws_pending, channel_access>>
    /\ UNCHANGED fwdVars

\* setup_new_server_topic lines 293-354: without a thread nothing is sent;
\* otherwise the messages of the channel are collected, and the welcome
\* message is sent before they go, sorted, to send_messages
WsSetup ==
    /\ proc[WsProc].pc = "ws_topic"
    /\ LET topic_id == proc[WsProc].ret
           all_messages == IF guild_name \in registry
                           THEN ParseAnnouncementChannel(backlog_limit)
                           ELSE << >>
           recent_messages == LastOf(SortByTimestamp(all_messages), backlog_keep)
       IN IF topic_id = NoTid
          THEN /\ ws_pending' = [ws_pending EXCEPT !.st = "done"]
               /\ proc' = [proc EXCEPT ![WsProc] = IdleProc]
               /\ UNCHANGED forwarded
          ELSE /\ forwarded' = SendNotice(forwarded, topic_id, welcome_msg)
               /\ UNCHANGED ws_pending
               /\ proc' = [proc EXCEPT ![WsProc] =
                        IF all_messages # << >>
                        THEN DEntry([Begin("deliver", guild_name)
                                        EXCEPT !.msgs = recent_messages,
                                               !.stack = <<"ws_sent">>])
                        ELSE [@ EXCEPT !.pc = "ws_sent"]]
    /\ UNCHANGED <<storeVars, startup_verification_done, lockVars, threads,
                   envVars, log>>
    /\ UNCHANGED <<now, pending_servers, handler, channel_access, admitted>>
    /\ UNCHANGED <<save_ok, access, feed, gateway, fallback>>

\* delayed_server_processing lines 249-251: the entry leaves pending_servers
WsSent ==
    /\ proc[WsProc].pc = "ws_sent"
    /\ ws_pending' = [ws_pending EXCEPT !.st = "done"]
    /\ proc' = [proc EXCEPT ![WsProc] = IdleProc]
    /\ UNCHANGED <<storeVars, startup_verification_done, lockVars, threads,
                   envVars, log>>
    /\ UNCHANGED <<now, pending_servers, handler, channel_access, admitted>>
    /\ UNCHANGED fwdVars

AdmissionEnv ==
    /\ log.nenv < MaxPendEnv
    /\ \/ EnvGrant(guild_name, FwdChannel)
       \/ EnvGrantGuild
       \/ EnvCreateFlip

NextAdmission ==
    \/ Schedule(guild_name)
    \/ StartHandler
    \/ Sweep
    \/ PnWelcome
    \/ PnSent
    \/ now <= StartBy /\ HandleNewGuild
    \/ PushPoll
    \/ WsSetup
    \/ WsSent
    \/ \E p \in Procs :
          \/ GuardStep(p)
          \/ SvLock(p)
          \/ SvApply(p)
          \/ SmTry(p)
          \/ DSave(p)
    \/ now <= StartBy /\ Post
    \/ Tick
    \/ AdmissionEnv

SpecAdmission == InitPending /\ [][NextAdmission]_vars

(***************************************************************************)
(* The push path when Discord sends GUILD_CREATE for the same guild again  *)
(* while its entry is pending (a reconnection, the guild becoming          *)
(* available).  The second task of delayed_server_processing is followed   *)
(* from the moment the first has ended; until then its turns of the        *)
(* waiting loop change nothing.                                            *)
(***************************************************************************)
\* handle_new_guild lines 200-214 for a guild that has an entry already: the
\* server is still missing from the configuration, the entry is overwritten
\* and one more task is created
HandleNewGuildAgain ==
    /\ ws_pending.st \in {"created", "waiting"}
    /\ ws_pending.rejoin.st = "none"
    /\ guild_name \notin registry
    /\ ws_pending' = [ws_pending EXCEPT !.join_time = now,
                          !.rejoin = [st |-> "created", start_time |-> now]]
    /\ UNCHANGED topicVars
    /\ UNCHANGED <<now, pending_servers, handler, channel_access, admitted>>
    /\ UNCHANGED fwdVars

\* the second task goes on with its waiting loop (lines 228-235)
ResumeTask ==
    /\ ws_pending.st = "done"
    /\ ws_pending.rejoin.st = "created"
    /\ proc[WsProc].pc = "idle"
    /\ ws_pending' = [ws_pending EXCEPT !.st = "waiting",
                          !.start_time = ws_pending.rejoin.start_time,
                          !.wake = now,
                          !.rejoin.st = "running"]
    /\ UNCHANGED topicVars
    /\ UNCHANGED <<now, pending_servers, handler, channel_access, admitted>>
    /\ UNCHANGED fwdVars

NextRejoin ==
    \/ now <= StartBy /\ HandleNewGuild
    \/ HandleNewGuildAgain
    \/ ResumeTask
    \/ PushPoll
    \/ WsSetup
    \/ WsSent
    \/ GuardFast(WsProc)
    \/ GuardFastProbe(WsProc)
    \/ GuardLock(WsProc)
    \/ GuardChat(WsProc)
    \/ GuardCreate(WsProc)
    \/ SvLock(WsProc)
    \/ SvApply(WsProc)
    \/ SmTry(WsProc)
    \/ DSave(WsProc)
    \/ now <= StartBy /\ Post
    \/ Tick
    \/ AdmissionEnv

SpecRejoin == InitPending /\ [][NextRejoin]_vars

(***************************************************************************)
(* Properties.                                                             *)
(***************************************************************************)
CreatedFor(s) == {t \in 1..Len(threads) : threads[t].src = s}
OpenFor(s) == {t \in CreatedFor(s) : threads[t].st = "open"}
DeletedOf(s) == {t \in CreatedFor(s) : threads[t].st = "deleted"}
Called == {s \in AllSources : log.calls[s] > 0}

\* C1: from an empty store, with a destination that has topics and accepts
\* create_forum_topic, concurrent _get_or_create_topic_safe calls issue at most
\* one create call per source and hand one id to all callers of a source; when
\* all calls are over there was exactly one create call per source called, and
\* server_topics holds exactly one entry per source, the id the callers got.
C1_OneCreatePerSource ==
    /\ \A s \in AllSources :
          /\ log.creates[s] <= 1
          /\ NoTid \notin log.returned[s]
          /\ Cardinality(log.returned[s]) <= 1
    /\ Quiet =>
          /\ Keys(server_topics) = Called
          /\ Len(server_topics) = Cardinality(Called)
          /\ \A s \in Called :
                /\ log.creates[s] = 1
                /\ log.returned[s] = {Get(server_topics, s)}

\* two callers of one source; the second took the lock after the first had
\* created the thread and is at its double check
C1_Witness ==
    \E p, q \in Procs :
        /\ p # q
        /\ proc[p].srv = proc[q].srv
        /\ proc[p].pc = "g_check_probe"
        /\ proc[q].pc = "idle" \/ proc[q].op = "acquire"
        /\ log.calls[proc[p].srv] >= 2
        /\ log.creates[proc[p].srv] = 1

\* C2: at most one open destination thread exists per source, whatever the
\* interleaving of deliveries, _recreate_topic_if_missing, the passes,
\* sync_servers and reset_topics.
C2_OneOpenThreadPerSource ==
    \A s \in AllSources : Cardinality(OpenFor(s)) <= 1

\* C3: as long as only deliveries run and threads are only deleted
\* out-of-band, the threads created for a source number at most one
\* more than those deleted: one new thread per deleted one, however many
\* deliveries fail on it at once; and when all is over the store maps the
\* source to the one thread that is left.
C3_OneNewThreadPerDeletion ==
    log.plain =>
        \A s \in AllSources :
            /\ Cardinality(CreatedFor(s)) <= 1 + Cardinality(DeletedOf(s))
            /\ Quiet /\ Has(server_topics, s) /\ TopicExists(Get(server_topics, s))
                  => OpenFor(s) = {Get(server_topics, s)}

\* C4: no two distinct source names are mapped to the same thread id.
C4_StoreInjective ==
    \A i, j \in 1..Len(server_topics) :
        i # j => server_topics[i].v # server_topics[j].v

\* C5: when the snapshot of a pass holds two entries under different keys
\* whose threads both exist and whose canonical names collide, the pass leaves
\* exactly one of the two mappings and one of the two threads open.
C5_DuplicatesCollapsed ==
    log.pass.kind \in {"sv", "cl", "ve"} /\ log.pass.dup => log.pass.collapsed

\* C6: when cleanup_invalid_topics, or the forced startup_topic_verification,
\* has run twice in a row with nothing else in between, the second run reported
\* zero removals, closed no thread and left server_topics as it found it.
C6_SecondPassNoOp ==
    log.seq = 2 =>
        /\ log.pass.removed = 0
        /\ log.pass.closed = 0
        /\ ~log.pass.changed

\* a second run right after a run that removed a mapping, with a mapping left
C6_Witness ==
    /\ Quiet
    /\ log.seq = 2
    /\ log.prev > 0
    /\ server_topics # << >>

\* C7 as stated: a completed startup_topic_verification or
\* cleanup_invalid_topics leaves exactly the mappings of its starting snapshot
\* whose thread existed and was open.
C7_PassKeepsExactlyLive ==
    log.pass.kind \in {"sv", "cl"} => log.pass.exact

\* C7 amended: the same for cleanup_invalid_topics and for a
\* startup_topic_verification that found the chat to have topics; one that
\* finds a chat without topics returns without looking at the mappings.
C7_PassKeepsExactlyLiveInForum ==
    /\ log.pass.kind \in {"sv", "cl"} /\ ~log.pass.skipped => log.pass.exact
    /\ log.pass.kind = "sv" /\ log.pass.skipped => ~log.pass.changed

\* a pass that removed a stale mapping and kept a live one
C7_Witness ==
    /\ Quiet
    /\ log.pass.kind \in {"sv", "cl"}
    /\ ~log.pass.skipped
    /\ log.pass.removed > 0
    /\ server_topics # << >>
    /\ \E i \in 1..Len(server_topics) : TopicExists(server_topics[i].v)

Processed(s) == Has(pending_servers, s) /\ Get(pending_servers, s).processed

\* C8: a pending entry none of whose probes succeeded is handed to processing
\* only when verification_delay has passed since its join_time, by the sweep of
\* NewServerHandler and by delayed_server_processing alike, and a sweep that
\* samples the clock at or after join_time + verification_delay hands it over.
C8_AdmittedAfterDelay ==
    /\ \A s \in PendSources :
          /\ ~admitted.early[s]
          /\ (/\ Has(pending_servers, s)
              /\ handler.swept \/ handler.todo # << >> \/ proc[HandlerProc].pc # "idle"
              /\ handler.current_time - Get(pending_servers, s).join_time
                    >= verification_delay)
             => admitted.attempted[s]
    /\ admitted.ws_done /\ admitted.ws_forced => ~admitted.ws_early

C8_Witness ==
    /\ \E s \in PendSources : admitted.forced[s] /\ Processed(s)
    /\ admitted.ws_forced
    /\ ws_pending.st = "done"

C10_EventuallyProcessed ==
    \A s \in PendSources : Has(pending_servers, s) ~> Processed(s)


\* C13: whenever the Guard, called by a delivering caller for its message,
\* yields no thread because the destination chat has no topics, that caller
\* goes on to send the message without a thread: after the Guard's step the
\* caller is at _send_message with no thread id, on the batch path
\* (send_messages, continuation "d_send") as well as on the push path
\* (forward_to_telegram, continuation "f_send").
C13_NoTopicsStillSent ==
    [][\A p \in Procs :
          (/\ proc[p].pc = "g_chat"
           /\ proc'[p] # proc[p]
           /\ ~CheckIfSupergroupWithTopics
           /\ Head(proc[p].stack) \in {"d_send", "f_send"})
          => (proc'[p].pc = "sm_try" /\ proc'[p].tid = NoTid)]_vars

\* C14: a failed create-thread call is reported to the caller of the Guard
\* as an outcome other than the one a chat without topics gives (no thread
\* id): a create call that fails does not add "no thread id" to the outcomes
\* the Guard has returned for the source.
C14_CreateFailureDistinct ==
    [][\A p \in Procs :
          (/\ proc[p].pc = "g_create"
           /\ proc'[p] # proc[p]
           /\ ~create_ok
           /\ NoTid \notin log.returned[proc[p].srv])
          => NoTid \notin log'.returned[proc[p].srv]]_vars

\* C16: when the Guard has found no live mapping for the source and the
\* destination chat has no topics, it returns no thread id, does not go on to
\* the create call, creates no thread and writes no mapping.
C16_NoTopicsNoCreate ==
    [][\A p \in Procs :
          (/\ proc[p].pc = "g_chat"
           /\ proc'[p] # proc[p]
           /\ ~is_forum)
          => /\ proc'[p] = Ret(proc[p], NoTid)
             /\ NoTid \in log'.returned[proc[p].srv]
             /\ log'.creates = log.creates
             /\ UNCHANGED <<server_topics, saved_topics, threads>>]_vars

\* a Guard call for SrcA has returned no thread id in a chat without topics:
\* no create call was ever made for SrcA and SrcA has no mapping
C16_Witness ==
    /\ ~is_forum
    /\ NoTid \in log.returned[SrcA]
    /\ log.creates[SrcA] = 0
    /\ ~Has(server_topics, SrcA)
    /\ threads = << >>

\* the context is inside a reconcile pass at the point where the pass writes
\* server_topics: the removal loops of startup_topic_verification and
\* cleanup_invalid_topics, the sync of verify_existing_topics, the removal of
\* sync_servers
PassMutating(p) == proc[p].pc \in {"sv_apply", "cl_apply", "ve_sync", "ss_cleaned"}

\* C18: no reachable state has one context writing server_topics inside a
\* reconcile pass while another context is inside the Guard holding
\* topic_creation_lock.
C18_PassExcludesGuard ==
    \A p, q \in Procs :
        ~(p # q /\ PassMutating(p) /\ topic_creation_lock = q)

\* C19: startup_topic_verification and cleanup_invalid_topics remove the
\* mapping of a source only if the thread id mapped to the source when it is
\* removed is the id the pass read and checked in its scan.
C19_RemovesOnlyCheckedId ==
    [][\A p \in Procs :
          (proc[p].pc \in {"sv_apply", "cl_apply"} /\ proc'[p] # proc[p])
          => \A s \in Keys(server_topics) \ Keys(server_topics') :
                /\ Has(proc[p].snap, s)
                /\ Get(proc[p].snap, s) = Get(server_topics, s)]_vars

\* C15: a save that fails during a mutating operation leaves the in-memory
\* mapping as it was before the operation, so that whenever no operation is
\* in progress server_topics equals the saved copy.
C15_StoreEqualsSavedCopy ==
    Quiet => saved_topics = server_topics

\* C20: the delivery of one message runs _recreate_topic_if_missing at most
\* once.
C20_OneRecreationPerMessage ==
    \A p \in Procs : proc[p].rec <= 1

\* the channel id appears in the guild snapshot of the connection
InSnapshot(channel_id) == access.guilds_data[channel_id] # NoChannel

\* C17: every registry channel hybrid_channel_verification has classified is
\* in http_accessible_channels exactly when its HTTP test succeeded and in
\* websocket_accessible_channels exactly when its id appears in the guild
\* snapshot (both: Full, push only: PushOnly, pull only: PullOnly, neither:
\* in neither set).
C17_HybridClassification ==
    \A c \in 1..access.tested :
        /\ c \in access.http_accessible_channels <=> access.http_works[c]
        /\ c \in access.websocket_accessible_channels <=> InSnapshot(c)

\* C11: no message of the source is sent to the destination chat more than
\* once, whichever of initial_sync, handle_new_message and
\* fallback_polling_loop sends it.
C11_ForwardedOnce ==
    \A i, j \in 1..Len(forwarded) :
        i # j => forwarded[i].id # forwarded[j].id

\* C12: the messages of the source are sent to the destination chat in
\* non-decreasing timestamp order over the whole run.
C12_ForwardedInTimestampOrder ==
    \A i \in 1..Len(forwarded) - 1 :
        forwarded[i].ts <= forwarded[i + 1].ts

\* C21: no send to the destination chat is attempted and no thread is
\* created before a startup_topic_verification pass has finished, whichever
\* of send_messages, forward_to_telegram and the callers of the Guard
\* (process_new_server among them) is running.
C21_NothingBeforeVerification ==
    [][\A p \in Procs :
          (/\ proc'[p] # proc[p]
           /\ \/ proc[p].pc = "sm_try"
              \/ Len(threads') > Len(threads))
          => log.verified]_vars

\* a delivery has created a thread and sent its message, after the startup
\* verification it ran itself
C21_Witness ==
    /\ log.verified
    /\ threads # << >>
    /\ \E p \in Procs : proc[p].op = "deliver" /\ proc[p].pc = "d_save"

\* C22: a Guard call that has read a cached id after the startup
\* verification can always take its existence check, whoever holds
\* topic_creation_lock; when the thread exists the call returns the cached id
\* and the lock is left as it is.  The reads of get_server_topic_id in
\* send_messages and forward_to_telegram leave the lock alone as well.
C22_FastPathLockFree ==
    /\ [](\A p \in Procs :
            proc[p].pc = "g_fast_probe" => ENABLED GuardFastProbe(p))
    /\ [][\A p \in Procs :
            /\ (/\ proc[p].pc = "g_fast_probe"
                /\ proc'[p] # proc[p]
                /\ TopicExists(proc[p].tid))
               => /\ proc'[p] = Ret(proc[p], proc[p].tid)
                  /\ proc[p].tid \in log'.returned[proc[p].srv]
                  /\ UNCHANGED <<topic_creation_lock, server_topics, threads>>
            /\ (proc[p].pc \in {"d_get", "d_read", "f_read"} /\ proc'[p] # proc[p])
               => UNCHANGED topic_creation_lock]_vars

\* a Guard call for SrcA stands at the existence check of its cached id,
\* whose thread exists, while another context holds topic_creation_lock
C22_Witness ==
    \E p, q \in Procs :
        /\ p # q
        /\ topic_creation_lock = q
        /\ proc[p].pc = "g_fast_probe"
        /\ proc[p].srv = SrcA
        /\ TopicExists(proc[p].tid)
        /\ startup_verification_done

\* C23: a create call that fails leaves server_topics, topic_name_cache and
\* the saved copy as they were; a create call that succeeds writes the
\* mapping of the source to the new thread in memory and in the saved copy;
\* no step leaves a mapping to a thread that has not been created.
C23_MappingOnlyAfterCreate ==
    [][/\ \A p \in Procs :
            (proc[p].pc = "g_create" /\ proc'[p] # proc[p])
            => IF create_ok
               THEN /\ Len(threads') = Len(threads) + 1
                    /\ Has(server_topics', proc[p].srv)
                    /\ Get(server_topics', proc[p].srv) = Len(threads')
                    /\ topic_name_cache'[Len(threads')] = proc[p].srv
                    /\ save_ok => saved_topics' = server_topics'
               ELSE UNCHANGED <<server_topics, topic_name_cache, saved_topics, threads>>
       /\ \A i \in 1..Len(server_topics') : server_topics'[i].v <= Len(threads')
       /\ \A i \in 1..Len(saved_topics') : saved_topics'[i].v <= Len(threads')]_vars

\* a create call for SrcA has failed in a chat with topics: the Guard
\* returned no thread id and nothing was written
C23_Witness ==
    /\ ~create_ok
    /\ is_forum
    /\ log.creates[SrcA] >= 1
    /\ NoTid \in log.returned[SrcA]
    /\ ~Has(server_topics, SrcA)
    /\ ~Has(saved_topics, SrcA)
    /\ threads = << >>

\* C24: when the Guard, past its chat check, has no mapping for the source
\* and some entry under another key refers to an open thread that carries the
\* source's topic name, the Guard returns the id of such a thread, maps the
\* source to it and makes no create call.
C24_AdoptsSameNameThread ==
    [][\A p \in Procs :
          LET server_name == proc[p].srv
              same == {i \in 1..Len(server_topics) :
                          /\ server_topics[i].k # server_name
                          /\ ThreadOpen(server_topics[i].v)
                          /\ threads[server_topics[i].v].name = TopicName(server_name)}
          IN (/\ proc[p].pc = "g_chat"
              /\ proc'[p] # proc[p]
              /\ is_forum
              /\ ~Has(server_topics, server_name)
              /\ same # {})
             => /\ \E i \in same :
                      /\ proc'[p] = Ret(proc[p], server_topics[i].v)
                      /\ Has(server_topics', server_name)
                      /\ Get(server_topics', server_name) = server_topics[i].v
                      /\ server_topics[i].v \in log'.returned[server_name]
                /\ log'.creates = log.creates
                /\ UNCHANGED threads]_vars

\* SrcA was given the thread created for SrcB, which carries the topic name of
\* SrcA, without a create call for SrcA
C24_Witness ==
    /\ Has(server_topics, SrcA) /\ Has(server_topics, SrcB)
    /\ Get(server_topics, SrcA) = Get(server_topics, SrcB)
    /\ ThreadOpen(Get(server_topics, SrcA))
    /\ threads[Get(server_topics, SrcA)].name = TopicName(SrcA)
    /\ threads[Get(server_topics, SrcA)].src = SrcB
    /\ log.creates[SrcA] = 0
    /\ Get(server_topics, SrcA) \in log.returned[SrcA]

\* C25: when verify_existing_topics finds two open threads listed under the
\* same clean name, the thread with the lowest id of the two stays open, the
\* other one is closed, and every source that was mapped to the closed thread
\* is mapped to the kept one afterwards.
C25_KeepsLowestAndRepoints ==
    [][\A p \in Procs :
          (proc[p].pc = "ve_sync" /\ proc'[p] # proc[p]) =>
             \A i, j \in 1..Len(proc[p].valid) :
                LET kept == proc[p].valid[i].k
                    other == proc[p].valid[j].k
                IN (/\ kept < other
                    /\ CleanName(proc[p].valid[i].v) = CleanName(proc[p].valid[j].v)
                    /\ ThreadOpen(kept) /\ ThreadOpen(other)
                    /\ \A h \in 1..Len(proc[p].valid) :
                          CleanName(proc[p].valid[h].v) = CleanName(proc[p].valid[i].v)
                             => proc[p].valid[h].k >= kept)
                   => /\ ThreadOpenIn(threads', kept)
                      /\ ~ThreadOpenIn(threads', other)
                      /\ \A n \in 1..Len(server_topics) :
                            server_topics[n].v = other
                               => /\ Has(server_topics', server_topics[n].k)
                                  /\ Get(server_topics', server_topics[n].k) = kept]_vars

\* C26: no step of a reconcile pass (startup_topic_verification,
\* cleanup_invalid_topics, verify_existing_topics, sync_servers) creates a
\* thread, counts as a create call or adds a key to server_topics, also when
\* the registry holds a source that the store does not.
C26_PassesNeverCreate ==
    [][\A p \in Procs :
          (/\ proc'[p] # proc[p]
           /\ proc[p].pc \in {"sv_lock", "sv_apply", "cl_lock", "cl_apply",
                               "ve_scan", "ve_sync", "ss_cleaned"})
          => /\ Keys(server_topics') \subseteq Keys(server_topics)
             /\ Len(threads') = Len(threads)
             /\ log'.creates = log.creates]_vars

\* sync_servers has run its verification and cleanup and is about to compare
\* the registry, which holds a source without a mapping, with the store
C26_Witness ==
    \E p \in Procs :
        /\ proc[p].pc = "ss_cleaned"
        /\ proc[p].op = "sync"
        /\ log.pass.kind = "cl"
        /\ proc[p].cur \ Keys(server_topics) # {}
        /\ \A s \in proc[p].cur \ Keys(server_topics) : log.creates[s] = 0

\* C27: an entry is handed to processing, by the sweep of NewServerHandler
\* (process_new_server is called for it) or by delayed_server_processing (its
\* waiting loop is left), only when at least grace_period has passed since its
\* join_time; an admission before verification_delay is no exception.
C27_EarlyOnlyAfterGrace ==
    [][/\ (/\ proc[HandlerProc].pc \in {"idle", "pn_topic"}
            /\ proc'[HandlerProc] # proc[HandlerProc]
            /\ proc'[HandlerProc].op = "process")
           => /\ Has(pending_servers, proc'[HandlerProc].srv)
              /\ handler'.current_time
                    - Get(pending_servers, proc'[HandlerProc].srv).join_time
                       >= grace_period
       /\ (ws_pending.st \in {"created", "waiting"} /\ ws_pending'.st = "verified")
           => now - ws_pending.join_time >= grace_period]_vars

\* C28: no step taken while a source has a pending entry that is not marked
\* processed creates a thread for that source or forwards one of its messages.
C28_PendingSourceUntouched ==
    [][\A s \in PendSources :
          (Has(pending_servers, s) /\ ~Get(pending_servers, s).processed)
             => /\ {t \in 1..Len(threads') : threads'[t].src = s}
                      = {t \in 1..Len(threads) : threads[t].src = s}
                /\ (s = SrcA => forwarded' = forwarded)]_vars

\* C29: an entry leaves pending_servers only when it is marked processed (before
\* the sweep, or by this sweep after process_new_server returned True for it)
\* and its join_time is more than the retention window back; process_new_server is
\* called only for an entry that is present and not processed; a source whose
\* entry was removed gets no entry again.
C29_RemovalOnlyOfOldAdmitted ==
    [][\A s \in PendSources :
          /\ (Has(pending_servers, s) /\ ~Has(pending_servers', s))
                => /\ \/ Get(pending_servers, s).processed
                      \/ /\ proc[HandlerProc].pc = "pn_topic"
                         /\ proc[HandlerProc].srv = s
                         /\ proc[HandlerProc].ret # NoTid
                   /\ Get(pending_servers, s).join_time < now - retention
          /\ (/\ proc[HandlerProc].pc \in {"idle", "pn_topic"}
              /\ proc'[HandlerProc] # proc[HandlerProc]
              /\ proc'[HandlerProc].op = "process"
              /\ proc'[HandlerProc].srv = s)
                => Has(pending_servers, s) /\ ~Get(pending_servers, s).processed
          /\ (~Has(pending_servers, s) /\ admitted.attempted[s])
                => ~Has(pending_servers', s)]_vars

\* one source was admitted and its entry removed after the retention window,
\* the entry of another, older than the window and not processed, is kept
C29_Witness ==
    \E s, u \in PendSources :
        /\ admitted.result[s] = "ok"
        /\ ~Has(pending_servers, s)
        /\ handler.swept
        /\ Has(pending_servers, u)
        /\ ~Get(pending_servers, u).processed
        /\ Get(pending_servers, u).join_time < handler.current_time - retention

C31_SetsReflectLatestPass ==
    access.tested = NumRegistryChannels =>
        \A c \in RegistryChannels :
            (/\ ~access.http_works[c]
             /\ ~CheckWebsocketChannelAccess(c, access.guilds_data))
            => /\ c \notin access.http_accessible_channels
               /\ c \notin access.websocket_accessible_channels
               /\ c \notin access.subscribed_channels

\* C32: within a send_messages call every message handed to _send_message
\* is the next of the call's list and its timestamp is not above that of any
\* message the call has still to send, so the messages of the call go out in
\* non-decreasing order of their timestamps.
C32_BatchInTimestampOrder ==
    [][\A p \in Procs :
          (/\ proc[p].pc = "sm_try"
           /\ proc[p].op = "deliver"
           /\ proc[p].msgs # << >>
           /\ proc'[p] # proc[p])
          => /\ \A i \in 1..Len(proc[p].msgs) :
                    Head(proc[p].msgs).ts <= proc[p].msgs[i].ts
             /\ forwarded' # forwarded
                    => forwarded' = Append(forwarded, Head(proc[p].msgs))
             /\ proc'[p].op = "deliver" /\ proc'[p].pc = "sm_try"
                    => proc'[p].msgs \in {proc[p].msgs, Tail(proc[p].msgs)}]_vars

\* a call that was given its messages newest first has sent them oldest first
C32_Witness ==
    /\ Len(forwarded) = 3
    /\ forwarded[1].ts < forwarded[2].ts /\ forwarded[2].ts < forwarded[3].ts
    /\ forwarded[1].id = 3 /\ forwarded[2].id = 2 /\ forwarded[3].id = 1
    /\ \E p \in Procs : proc[p].op = "deliver" /\ proc[p].pc = "d_save"


\* C33: after a shutdown request the process does not end while a thread is
\* inside the Guard's critical section: in the ended process nobody holds
\* topic_creation_lock.
C33_NoExitInsideGuard ==
    fallback.phase = "stopped" => topic_creation_lock = 0

\* C34: parse_announcement_channel terminates whatever Discord answers: a
\* call that has started always reaches its return.
C34_ParseTerminates ==
    (proc[ParseProc].pc = "pa_request") ~> (proc[ParseProc].pc = "pa_done")

\* C35: whenever no operation on the store is in progress, topic_name_cache
\* is exactly the inverse of server_topics: topic_name_cache[t] = s if and
\* only if server_topics[s] = t.
C35_CacheIsInverse ==
    Quiet => \A s \in AllSources, t \in ThreadIds :
                (topic_name_cache[t] = s) <=> (Has(server_topics, s) /\ Get(server_topics, s) = t)

\* C36: an existence check that is inconclusive (get_forum_topic fails
\* otherwise than with "not found") counts as 'exists': while the check of a
\* mapped, open thread is inconclusive, no step of the Guard or of a pass
\* removes its mapping, and no thread is created for its source.
C36_InconclusiveCountsAsExists ==
    [][\A i \in 1..Len(server_topics) :
          LET s == server_topics[i].k
              t == server_topics[i].v
          IN (/\ t \in 1..Len(threads)
              /\ threads[t].st = "open" /\ threads[t].probe # "answers"
              /\ threads'[t] = threads[t])
             => /\ Has(server_topics', s) /\ Get(server_topics', s) = t
                /\ \A u \in 1..Len(threads') : u > Len(threads) => threads'[u].src # s]_vars

\* C37: no context holds topic_creation_lock and topic_sync_lock together, no
\* context asks for a lock it holds, a context that has returned or raised
\* holds no lock, and the holder of a lock always has a step to take, so no
\* state is a deadlock on the two locks.
C37_LockDiscipline ==
    \A p \in Procs :
        /\ ~(topic_creation_lock = p /\ topic_sync_lock = p)
        /\ proc[p].pc = "g_lock" => topic_creation_lock # p
        /\ proc[p].pc \in {"sv_lock", "cl_lock"} => topic_sync_lock # p
        /\ proc[p].pc = "idle" => (topic_creation_lock # p /\ topic_sync_lock # p)
        /\ topic_creation_lock = p =>
              /\ proc[p].pc \in {"g_check_probe", "g_chat", "g_create"}
              /\ Len(threads) < MaxThreads => ENABLED GuardStep(p)
        /\ topic_sync_lock = p =>
              /\ proc[p].pc \in {"sv_apply", "cl_apply"}
              /\ ENABLED PassStep(p)

\* one context is about to create a thread under topic_creation_lock while
\* another is inside cleanup_invalid_topics under topic_sync_lock
C37_Witness ==
    \E p, q \in Procs :
        /\ p # q
        /\ topic_creation_lock = p /\ topic_sync_lock = q
        /\ proc[p].pc = "g_create" /\ proc[q].pc = "cl_apply"

\* C38: the join_time of a pending entry is recorded once: while the entry
\* exists no step changes its join_time or takes an admitted (processed) entry
\* back to not admitted.
C38_JoinTimeRecordedOnce ==
    [][\A s \in PendSources :
          (Has(pending_servers, s) /\ Has(pending_servers', s))
          => /\ Get(pending_servers', s).join_time = Get(pending_servers, s).join_time
             /\ Get(pending_servers, s).processed => Get(pending_servers', s).processed]_vars

\* C39: the fallback sweep skips only sources whose pending entry is not yet
\* admitted: a sweep that finds the source configured, not pending or pending
\* and admitted, its channel readable and a recent message among the newest
\* fallback_limit, hands messages of the source to send_messages.
C39_AdmittedSourcePolled ==
    [][(/\ fallback.phase = "running" /\ fallback'.wake # fallback.wake
        /\ SrcA \in registry
        /\ Has(pending_servers, SrcA) => Get(pending_servers, SrcA).processed
        /\ TestChannelHttpAccess(FwdChannel)
        /\ \E i \in 1..Len(feed) :
              i > Len(feed) - fallback_limit /\ feed[i].ts > now - recent_window)
       => /\ proc'[FallbackProc].op = "deliver"
          /\ proc'[FallbackProc].srv = SrcA
          /\ proc'[FallbackProc].msgs # << >>]_vars

\* C40: the admission sequence of a newly discovered source runs at most
\* once: the waiting loop of delayed_server_processing is left, and the
\* thread acquisition started, only for a source that has not been through it.
C40_AdmissionAtMostOnce ==
    [][(ws_pending.st \in {"created", "waiting"} /\ ws_pending'.st = "verified")
       => ~admitted.ws_done]_vars

=========================================================================
